---- MODULE Spec2Model ----
(***************************************************************************)
(* A model of the TypeScript user code runner (UserCodeRunner).            *)
(*                                                                         *)
(* The repository carries two revisions of the runner:                     *)
(*   "lru" : src/src/UserCodeRunner.ts  (LRU cache of compiled artifacts)  *)
(*   "map" : src/unnamed/part_007       (caller-supplied cache of Results, *)
(*                                       type-checker based remapping)     *)
(* The variable rev fixes the revision of a behaviour; what the two        *)
(* revisions share is modelled once.                                       *)
(*                                                                         *)
(* The TypeScript compiler, the vm module loader, the stack-trace parser   *)
(* and the source-map consumer are external: they are modelled by what the *)
(* runner observes of them (diagnostic lists, faults with parsed frames,   *)
(* originalPositionFor).                                                   *)
(***************************************************************************)
EXTENDS Integers, Sequences, FiniteSets, TLC

VARIABLES rev, options, cache, context, calls, started, probe

vars == <<rev, options, cache, context, calls, started, probe>>

(***************************************************************************)
(* Bounds of the model                                                     *)
(***************************************************************************)
\* number of executeUserCode calls started in one behaviour
MaxCalls == 3
\* number of calls started in one behaviour of the specification with fairness
MaxLiveCalls == 2
\* longest parsed stack drawn for a runtime fault in SpecErrors
MaxFrames == 2
\* longest list of pre-emit diagnostics drawn for the loops of preProcess in
\* SpecErrors (the list of emit diagnostics is one shorter)
MaxDiagnostics == 2
MaxFiles == 3
MaxNodes == 4

(***************************************************************************)
(* JavaScript values that are not numbers of the model's ranges            *)
(***************************************************************************)
Null == 0 - 1
Undefined == 0 - 2
Infinity == 1000
NegInfinity == 0 - 1000

EXECUTION_HARNESS_FILENAME == <<"__execution_harness">>
USER_CODE_FILENAME == <<"__user_file">>

Revisions == {"lru", "map"}

(***************************************************************************)
(* Strings.  A text is a sequence of tokens; ":" is a token of its own, so *)
(* that joining texts with ":" is modelled as the concatenation it is.     *)
(* A path name is a sequence of segments: directories ("lib/"), the stem   *)
(* pieces and the extensions (".d", ".ts", ".js", ".map").                 *)
(***************************************************************************)
RECURSIVE join(_, _)
join(strs, sep) ==
  IF strs = <<>> THEN <<>>
  ELSE IF Len(strs) = 1 THEN Head(strs)
  ELSE Head(strs) \o <<sep>> \o join(Tail(strs), sep)

RECURSIVE concatAll(_)
concatAll(strs) ==
  IF strs = <<>> THEN <<>> ELSE Head(strs) \o concatAll(Tail(strs))

endsWith(str, suffix) ==
  /\ Len(suffix) <= Len(str)
  /\ SubSeq(str, Len(str) - Len(suffix) + 1, Len(str)) = suffix

Extensions == {".d", ".ts", ".js", ".map"}
IsDirectory(seg) == seg \in {"lib/", "src/"}

RECURSIVE basename(_)
basename(pathname) ==
  IF pathname # <<>> /\ IsDirectory(Head(pathname)) THEN basename(Tail(pathname))
  ELSE pathname

extname(pathname) ==
  LET b == basename(pathname)
  IN IF Len(b) >= 2 /\ b[Len(b)] \in Extensions THEN <<b[Len(b)]>> ELSE <<>>

\* String.prototype.replace(pattern, '') with a string pattern: the first occurrence
RECURSIVE replaceFirst(_, _)
replaceFirst(str, seg) ==
  IF str = <<>> THEN <<>>
  ELSE IF Head(str) = seg THEN Tail(str)
  ELSE <<Head(str)>> \o replaceFirst(Tail(str), seg)

removeExt(pathname) ==
  LET e == extname(pathname)
  IN IF e = <<>> THEN basename(pathname) ELSE replaceFirst(basename(pathname), e[1])

(***************************************************************************)
(* Source files.  A position is an offset into a file's text; a node of an *)
(* AST is [kind, start, end, children] with start = getStart() and         *)
(* end = getEnd(); an AST is the sequence of its nodes, the k-th having   *)
(* the id k, and 1 its root.                                               *)
(* NoNode stands for null / undefined nodes.                               *)
(***************************************************************************)
NoNode == 0

N(kind, start, end, children) ==
  [kind |-> kind, start |-> start, end |-> end, children |-> children]

\* The synthesized execution harness of preProcess, in abstract offsets:
\*   import 'aux'; import defaultExport from '__user_file';
\*   declare global { const __args: [T..]; let __result: R; }
\*   __result = defaultExport(...__args);
HarnessTree ==
  <<
    N("SourceFile", 0, 36, <<2, 35>>),                      \* 1
    N("SyntaxList", 0, 35, <<3, 7, 14, 24>>),               \* 2
    N("ImportDeclaration", 0, 3, <<4, 5, 6>>),              \* 3
    N("ImportKeyword", 0, 1, <<>>),                         \* 4
    N("StringLiteral", 1, 2, <<>>),                         \* 5
    N("SemicolonToken", 2, 3, <<>>),                        \* 6
    N("ImportDeclaration", 3, 9, <<8, 9, 11, 12, 13>>),     \* 7
    N("ImportKeyword", 3, 4, <<>>),                         \* 8
    N("ImportClause", 4, 5, <<10>>),                        \* 9
    N("Identifier", 4, 5, <<>>),                            \* 10
    N("FromKeyword", 5, 6, <<>>),                           \* 11
    N("StringLiteral", 6, 8, <<>>),                         \* 12
    N("SemicolonToken", 8, 9, <<>>),                        \* 13
    N("ModuleDeclaration", 9, 25, <<15, 16, 17>>),          \* 14
    N("DeclareKeyword", 9, 10, <<>>),                       \* 15
    N("Identifier", 10, 11, <<>>),                          \* 16
    N("ModuleBlock", 11, 25, <<18, 19, 23>>),               \* 17
    N("OpenBraceToken", 11, 12, <<>>),                      \* 18
    N("SyntaxList", 12, 24, <<20, 22>>),                    \* 19
    N("VariableStatement", 12, 18, <<21>>),                 \* 20
    N("TupleType", 14, 17, <<>>),                           \* 21
    N("VariableStatement", 18, 24, <<34>>),                 \* 22
    N("CloseBraceToken", 24, 25, <<>>),                     \* 23
    N("ExpressionStatement", 25, 35, <<25, 33>>),           \* 24
    N("BinaryExpression", 25, 34, <<26, 27, 28>>),          \* 25
    N("Identifier", 25, 27, <<>>),                          \* 26
    N("EqualsToken", 27, 28, <<>>),                         \* 27
    N("CallExpression", 28, 34, <<29, 30, 31, 32>>),        \* 28
    N("Identifier", 28, 30, <<>>),                          \* 29
    N("OpenParenToken", 30, 31, <<>>),                      \* 30
    N("SyntaxList", 31, 33, <<36>>),                        \* 31
    N("CloseParenToken", 33, 34, <<>>),                     \* 32
    N("SemicolonToken", 34, 35, <<>>),                      \* 33
    N("TypeReference", 20, 23, <<>>),                       \* 34
    N("EndOfFileToken", 36, 36, <<>>),                      \* 35
    N("SpreadElement", 31, 33, <<>>)                        \* 36
  >>

\* getDescendentAtLocation walks down from node: a node whose span is exactly
\* [start, end] is returned; otherwise the walk continues in the first child
\* that encloses the span, and yields null when no child does.
RECURSIVE getDescendentAtLocation(_, _, _, _)
getDescendentAtLocation(tree, node, start, end) ==
  IF tree[node].start = start /\ tree[node].end = end THEN node
  ELSE LET cs == tree[node].children
           enclosing == {k \in 1..Len(cs) :
                           tree[cs[k]].start <= start /\ end <= tree[cs[k]].end}
       IN IF enclosing = {} THEN NoNode
          ELSE LET first == CHOOSE k \in enclosing : \A j \in enclosing : k <= j
               IN getDescendentAtLocation(tree, cs[first], start, end)

\* The tree of a user file,
\*   export default function F() { return 'a'; }
\* in the same units as the harness tree.
UserTree ==
  <<
    N("SourceFile", 0, 10, <<2, 13>>),                      \* 1
    N("SyntaxList", 0, 10, <<3>>),                          \* 2
    N("FunctionDeclaration", 0, 10, <<4, 5, 6, 7, 8, 9>>),  \* 3
    N("SyntaxList", 0, 2, <<17, 18>>),                      \* 4
    N("FunctionKeyword", 2, 3, <<>>),                       \* 5
    N("Identifier", 3, 4, <<>>),                            \* 6
    N("OpenParenToken", 4, 5, <<>>),                        \* 7
    N("CloseParenToken", 5, 6, <<>>),                       \* 8
    N("Block", 6, 10, <<10, 11, 12>>),                      \* 9
    N("OpenBraceToken", 6, 7, <<>>),                        \* 10
    N("SyntaxList", 7, 9, <<14>>),                          \* 11
    N("CloseBraceToken", 9, 10, <<>>),                      \* 12
    N("EndOfFileToken", 10, 10, <<>>),                      \* 13
    N("ReturnStatement", 7, 9, <<15, 16>>),                 \* 14
    N("ReturnKeyword", 7, 8, <<>>),                         \* 15
    N("StringLiteral", 8, 9, <<>>),                         \* 16
    N("ExportKeyword", 0, 1, <<>>),                         \* 17
    N("DefaultKeyword", 1, 2, <<>>)                         \* 18
  >>

\* UserCodeTypeError.stack up to its look-up of the node of the diagnostic:
\* the node, or the throw when the look-up returns null
diagnosticNodeOf(tree, diagnostic) ==
  IF getDescendentAtLocation(tree, 1, diagnostic.start,
                             diagnostic.start + diagnostic.length) = NoNode
  THEN [threw |-> "Could not find node for diagnostic", node |-> NoNode]
  ELSE [threw |-> "",
        node |-> getDescendentAtLocation(tree, 1, diagnostic.start,
                                         diagnostic.start + diagnostic.length)]

\* Array.prototype.find by kind: the first of the nodes that has the kind
find(tree, nodes, kind) ==
  nodes[CHOOSE j \in 1..Len(nodes) :
          /\ tree[nodes[j]].kind = kind
          /\ \A h \in 1..(j - 1) : tree[nodes[h]].kind # kind]

\* The anchors of the harness, found by structural position: the expression
\* of the first ExpressionStatement of the file, its left and right sides, the
\* SyntaxList child of the call and the call's expression.
executionHarnessExpressionStatementNode ==
  HarnessTree[find(HarnessTree, HarnessTree[2].children, "ExpressionStatement")].children[1]

executionHarnessResultNode ==
  HarnessTree[executionHarnessExpressionStatementNode].children[1]

executionHarnessDefaultFunctionCallNode ==
  HarnessTree[executionHarnessExpressionStatementNode].children[3]

executionHarnessArgumentsNode ==
  find(HarnessTree, HarnessTree[executionHarnessDefaultFunctionCallNode].children, "SyntaxList")

executionHarnessDefaultFunctionIdentifierNode ==
  HarnessTree[executionHarnessDefaultFunctionCallNode].children[1]

\* ts.SourceFile.getLineAndCharacterOfPosition: the line is the last one that
\* starts at or before the position, the character the distance from its start
\* (both 0-based; no check that the position lies inside the text).
getLineAndCharacterOfPosition(lineStarts, position) ==
  LET line == CHOOSE l \in 1..Len(lineStarts) :
                /\ lineStarts[l] <= position
                /\ \A m \in 1..Len(lineStarts) : lineStarts[m] <= position => m <= l
  IN [line |-> line - 1,
      character |-> IF position = Infinity THEN Infinity ELSE position - lineStarts[line]]

(***************************************************************************)
(* The user's source.  Its text is <<form, annotation, parameters, body>>: *)
(*   form  "funcDecl"    export default function F(..) {..}                *)
(*         "exprArrow"   export default (..) => ..                         *)
(*         "aliasArrow"  const x = (..) => ..;  export default x;          *)
(*         "aliasFunc"   const x = function (..) {..};  export default x;  *)
(*         "nonCallable" const h = 'hi';  export default h;                *)
(*         "namedDefault" const h = 'hi';  export { h as default };        *)
(*         "noDefault"   export function F(..) {..}                        *)
(*         "notModule"   function F(..) {..}                               *)
(* What createSourceFile and the type checker make of it is read off the   *)
(* text: two lines, the function-like and its parameters on the first, an  *)
(* export assignment of an alias on the second.                            *)
(***************************************************************************)
Forms == {"funcDecl", "exprArrow", "aliasArrow", "aliasFunc", "nonCallable",
          "namedDefault", "noDefault", "notModule"}
NonCallableForms == {"nonCallable", "namedDefault"}
CallableForms == {"funcDecl", "exprArrow", "aliasArrow", "aliasFunc"}
Annotations == {"annotated", "inferred"}
ParameterLists == {"0", "1", "2"}

UserLineStarts == <<0, 12>>
UserFileStart == 0
UserFileEnd == 20

Span(start, end) == [start |-> start, end |-> end]
NoSpan == Span(Undefined, Undefined)

formOf(userCode) == userCode[1]
isAnnotated(userCode) == userCode[2] = "annotated"
parameterCount(userCode) ==
  CASE userCode[3] = "0" -> 0 [] userCode[3] = "1" -> 1 [] OTHER -> 2
bodyOf(userCode) == userCode[4]

\* the declared parameters of the function-like, in order
parametersOf(userCode) ==
  [k \in 1..parameterCount(userCode) |-> Span(2 + 2 * k, 3 + 2 * k)]
\* the return type annotation of the function-like
typeOf(userCode) == IF isAnnotated(userCode) THEN Span(8, 10) ELSE NoSpan
\* the ExportAssignment statement `export default <expr>;`
exportAssignmentOf(userCode) ==
  CASE formOf(userCode) = "exprArrow" -> Span(0, 20)
    [] formOf(userCode) \in {"aliasArrow", "aliasFunc", "nonCallable"} -> Span(12, 20)
    [] OTHER -> NoSpan

\* the ExportSpecifier `h as default` of an export declaration
exportSpecifierOf(userCode) ==
  IF formOf(userCode) = "namedDefault" THEN Span(14, 18) ELSE NoSpan

\* revision "lru": the last ExportAssignment statement with a default keyword
defaultExportNode_lru(userCode) == exportAssignmentOf(userCode)

\* revision "lru": the first FunctionDeclaration statement carrying both the
\* export and the default modifier
defaultExportedFunctionNode_lru(userCode) ==
  IF formOf(userCode) = "funcDecl" THEN Span(0, 20) ELSE NoSpan

\* revision "map": the module's export named default, from the type checker
defaultExportSymbol(userCode) == formOf(userCode) \in CallableForms \cup NonCallableForms

\* revision "map": the symbol's value declaration, else its first declaration
defaultExportNode(userCode) ==
  IF ~defaultExportSymbol(userCode) THEN NoSpan
  ELSE IF formOf(userCode) = "funcDecl" THEN Span(0, 20)
  ELSE IF formOf(userCode) = "namedDefault" THEN exportSpecifierOf(userCode)
  ELSE exportAssignmentOf(userCode)

\* revision "map": the first call signature of the default export's type
hasCallSignature(userCode) == formOf(userCode) \in CallableForms

\* revision "map": the declaration of the (once un-aliased) default export
\* symbol when that symbol is a function symbol; a variable bound to an arrow
\* or function expression is not
defaultExportedFunctionNode(userCode) ==
  IF formOf(userCode) = "funcDecl" THEN Span(0, 20) ELSE NoSpan

defaultExportedFunctionReturnNode(userCode) ==
  IF defaultExportedFunctionNode(userCode) = NoSpan THEN NoSpan ELSE typeOf(userCode)

(***************************************************************************)
(* Compiler diagnostics and the errors built from them.                    *)
(* A diagnostic is [file, start, length, code, messageText, next]; file is *)
(* the path name of its source file, NoFile when the diagnostic has none.  *)
(* A message that is a chain is held as the text of its head and, in next, *)
(* the chains under the head, each [code, messageText, next]; next is      *)
(* empty for a message that is a string.                                   *)
(***************************************************************************)
NoFile == <<>>

Diagnostic(file, start, length, code, messageText) ==
  [file |-> file, start |-> start, length |-> length, code |-> code,
   messageText |-> messageText, next |-> <<>>]

DiagnosticMessageChain(code, messageText, next) ==
  [code |-> code, messageText |-> messageText, next |-> next]

\* a diagnostic whose message is a chain
Chained(diagnostic, next) == [diagnostic EXCEPT !.next = next]

NoDiagnostic == Diagnostic(NoFile, Undefined, Undefined, 0, "")
NoFault == [message |-> "", stack |-> <<>>]

\* A UserCodeError object: the class, the (rewritten) diagnostic it holds, the
\* fault and source map of a runtime error, and the user source of `sources`.
\* origin records the diagnostic as the compiler produced it.
ErrorObject(cls, diagnostic, origin, error, sourceMap, userCode) ==
  [cls |-> cls, diagnostic |-> diagnostic, origin |-> origin, error |-> error,
   sourceMap |-> sourceMap, userCode |-> userCode]

\* the outcome of an operation that may throw
Returned(value) == [threw |-> "", value |-> value]
Thrown(what) == [threw |-> what, value |-> NoDiagnostic]

RECURSIVE MinStart(_)
MinStart(spans) ==
  IF spans = <<>> THEN Infinity
  ELSE LET rest == MinStart(Tail(spans))
       IN IF Head(spans).start < rest THEN Head(spans).start ELSE rest

RECURSIVE MaxEnd(_)
MaxEnd(spans) ==
  IF spans = <<>> THEN NegInfinity
  ELSE LET rest == MaxEnd(Tail(spans))
       IN IF Head(spans).end > rest THEN Head(spans).end ELSE rest

\* a - b over the numbers and the two infinities
Minus(a, b) ==
  IF a = NegInfinity \/ b = Infinity THEN NegInfinity
  ELSE IF a = Infinity \/ b = NegInfinity THEN Infinity
  ELSE a - b

HarnessNodeOf(diagnostic) ==
  getDescendentAtLocation(HarnessTree, 1, diagnostic.start,
                          diagnostic.start + diagnostic.length)

Retarget(diagnostic, start, length, messageText) ==
  [diagnostic EXCEPT !.file = USER_CODE_FILENAME, !.start = start,
                     !.length = length, !.messageText = messageText]

\* revision "lru": the constructor of ExecutionHarnessTypeError rewrites the
\* diagnostic by the first case that applies, or throws
ExecutionHarnessTypeError_lru(diagnostic, userCode) ==
  LET diagnosticNode == HarnessNodeOf(diagnostic)
      exportNode == defaultExportNode_lru(userCode)
      functionNode == defaultExportedFunctionNode_lru(userCode)
      parameters == parametersOf(userCode)
  IN IF diagnosticNode = NoNode THEN Thrown("Unable to locate diagnostic node")
     ELSE IF diagnostic.code = 1192 THEN
       Returned(Retarget(diagnostic, Undefined, Undefined,
         "No default export. Expected a default export with the signature"))
     ELSE IF diagnostic.code = 2306 THEN
       Returned(Retarget(diagnostic, Undefined, Undefined,
         "No exports. Expected a default export with the signature"))
     ELSE IF /\ diagnostic.code = 2349
             /\ diagnosticNode = executionHarnessDefaultFunctionIdentifierNode THEN
       IF exportNode = NoSpan THEN Thrown("TypeError")
       ELSE Returned(Retarget(diagnostic, exportNode.start,
              exportNode.end - exportNode.start,
              "Default export is not callable. Expected a default export with the signature"))
     ELSE IF diagnosticNode = executionHarnessResultNode THEN
       IF functionNode = NoSpan \/ typeOf(userCode) = NoSpan THEN Thrown("TypeError")
       ELSE Returned(Retarget(diagnostic, typeOf(userCode).start,
              typeOf(userCode).end - typeOf(userCode).start, "Incorrect return type."))
     ELSE IF diagnosticNode \in {executionHarnessDefaultFunctionCallNode,
                                 executionHarnessDefaultFunctionIdentifierNode,
                                 executionHarnessArgumentsNode} THEN
       IF functionNode = NoSpan THEN Thrown("TypeError")
       ELSE Returned(Retarget(diagnostic, MinStart(parameters),
              Minus(MaxEnd(parameters), MinStart(parameters)),
              "Incorrect argument type."))
     ELSE Thrown("Unmapped execution harness error")

\* revision "map": the same constructor, deciding by the type checker's view of
\* the user's default export before it looks at the harness node
ExecutionHarnessTypeError_map(diagnostic, userCode) ==
  LET diagnosticNode == HarnessNodeOf(diagnostic)
      exportNode == defaultExportNode(userCode)
      returnNode == defaultExportedFunctionReturnNode(userCode)
      parameters == parametersOf(userCode)
  IN IF diagnosticNode = NoNode THEN Thrown("Unable to locate diagnostic node")
     ELSE IF ~defaultExportSymbol(userCode) \/ exportNode = NoSpan THEN
       Returned(Retarget(diagnostic, UserFileStart, UserFileEnd - UserFileStart,
         "No default export. Expected a default export function with the signature"))
     ELSE IF ~hasCallSignature(userCode) THEN
       Returned(Retarget(diagnostic, exportNode.start, exportNode.end - exportNode.start,
         "Default export is not a valid function. Expected a default export function with the signature"))
     ELSE IF diagnosticNode = executionHarnessResultNode THEN
       IF returnNode # NoSpan
       THEN Returned(Retarget(diagnostic, returnNode.start,
              returnNode.end - returnNode.start, "Incorrect return type."))
       ELSE Returned(Retarget(diagnostic, exportNode.start,
              exportNode.end - exportNode.start, "Incorrect return type."))
     ELSE IF diagnosticNode \in {executionHarnessDefaultFunctionCallNode,
                                 executionHarnessDefaultFunctionIdentifierNode,
                                 executionHarnessArgumentsNode} THEN
       IF Len(parameters) = 0
       THEN Returned(Retarget(diagnostic, exportNode.start,
              exportNode.end - exportNode.start, "Incorrect argument type."))
       ELSE Returned(Retarget(diagnostic, MinStart(parameters),
              MaxEnd(parameters) - MinStart(parameters), "Incorrect argument type."))
     ELSE Thrown("Unhandled diagnostic node")

ExecutionHarnessTypeError(revision, diagnostic, userCode) ==
  IF revision = "lru" THEN ExecutionHarnessTypeError_lru(diagnostic, userCode)
  ELSE ExecutionHarnessTypeError_map(diagnostic, userCode)

\* UserCodeTypeError.new: a diagnostic of the harness file becomes an
\* ExecutionHarnessTypeError, any other one a UserCodeTypeError as it is
UserCodeTypeError_new(revision, diagnostic, userCode) ==
  IF removeExt(diagnostic.file) = EXECUTION_HARNESS_FILENAME THEN
    LET built == ExecutionHarnessTypeError(revision, diagnostic, userCode)
    IN IF built.threw # "" THEN built
       ELSE Returned(ErrorObject("ExecutionHarnessTypeError", built.value, diagnostic,
                                 NoFault, {}, userCode))
  ELSE Returned(ErrorObject("UserCodeTypeError", diagnostic, diagnostic,
                            NoFault, {}, userCode))

(***************************************************************************)
(* Runtime faults.  A fault is [message, stack]; stack is what stack-trace *)
(* parses from it, innermost frame first.  A frame is                      *)
(* [fileName, functionName, lineNumber, columnNumber]; the file name of a  *)
(* module's frame is the identifier the module was created with.           *)
(* A source map is a set of segments                                       *)
(* [genLine, genCol, origLine, origCol]; lines are 1-based and columns     *)
(* 0-based, as the source-map library has them.                            *)
(***************************************************************************)
Frame(fileName, functionName, lineNumber, columnNumber) ==
  [fileName |-> fileName, functionName |-> functionName,
   lineNumber |-> lineNumber, columnNumber |-> columnNumber]

Segment(genLine, genCol, origLine, origCol) ==
  [genLine |-> genLine, genCol |-> genCol, origLine |-> origLine, origCol |-> origCol]

\* SourceMapConsumer.originalPositionFor: the segment of the line with the
\* greatest generated column not after the given one; nulls when there is none
originalPositionFor(sourceMap, line, column) ==
  LET onLine == {g \in sourceMap : g.genLine = line /\ g.genCol <= column}
  IN IF onLine = {} THEN [line |-> Null, column |-> Null]
     ELSE LET best == CHOOSE g \in onLine : \A h \in onLine : h.genCol <= g.genCol
          IN [line |-> best.origLine, column |-> best.origCol]

UserCodeRuntimeError_new(error, sourceMap, userCode) ==
  ErrorObject("UserCodeRuntimeError", NoDiagnostic, NoDiagnostic, error, sourceMap, userCode)

\* UserCodeRuntimeError.message
RuntimeMessage(e) == <<"Error: ", e.error.message>>

\* the first filter of UserCodeRuntimeError.stack
InUserFile(callSite) == endsWith(callSite.fileName, USER_CODE_FILENAME)

\* UserCodeRuntimeError.stack: the frames that pass both filters, each printed
\* as "at <functionName>(<line>:<column>)" with its mapped position
RuntimeStack(e) ==
  LET Mapped(callSite) ==
        originalPositionFor(e.sourceMap, callSite.lineNumber, callSite.columnNumber)
      Keep(callSite) == InUserFile(callSite) /\ Mapped(callSite).line # Null
      stackWithoutHarness == SelectSeq(e.error.stack, Keep)
  IN [k \in 1..Len(stackWithoutHarness) |->
        [functionName |-> stackWithoutHarness[k].functionName,
         line |-> Mapped(stackWithoutHarness[k]).line,
         column |-> Mapped(stackWithoutHarness[k]).column]]

Location(line, column) == [threw |-> "", line |-> line, column |-> column]
LocationThrown(what) == [threw |-> what, line |-> Undefined, column |-> Undefined]

\* UserCodeRuntimeError.location: the mapped position of stack[0]
RuntimeLocation(e) ==
  IF e.error.stack = <<>> THEN LocationThrown("TypeError")
  ELSE LET originalPosition ==
             originalPositionFor(e.sourceMap, e.error.stack[1].lineNumber,
                                 e.error.stack[1].columnNumber)
       IN Location(originalPosition.line, originalPosition.column)

PlusOne(n) == IF n = Infinity THEN Infinity ELSE n + 1

\* UserCodeTypeError.location
TypeErrorLocation(e) ==
  IF e.diagnostic.start = Undefined THEN LocationThrown("Could not find start position")
  ELSE LET location == getLineAndCharacterOfPosition(UserLineStarts, e.diagnostic.start)
       IN Location(location.line + 1, PlusOne(location.character))

\* ExecutionHarnessTypeError.location
HarnessErrorLocation(e) ==
  IF e.diagnostic.start = Undefined THEN Location(1, 1)
  ELSE LET location == getLineAndCharacterOfPosition(UserLineStarts, e.diagnostic.start)
       IN Location(location.line + 1, PlusOne(location.character))

\* UserCodeTypeError.message: "TypeError: TS<code> <mapped message>"
TypeErrorMessage(e) == <<"TypeError: TS", e.diagnostic.code, e.diagnostic.messageText>>

\* the message getter of an error object, by its class
message(e) ==
  IF e.cls = "UserCodeRuntimeError" THEN RuntimeMessage(e) ELSE TypeErrorMessage(e)

\* the location getter of an error object, by its class
location(e) ==
  CASE e.cls = "UserCodeRuntimeError" -> RuntimeLocation(e)
    [] e.cls = "ExecutionHarnessTypeError" -> HarnessErrorLocation(e)
    [] OTHER -> TypeErrorLocation(e)

\* UserCodeError.toJSON: the message, the stack and the location the getters
\* give (the stack of a type error is made of its location; the source
\* context is made of the diagnostic's span and the user's text)
toJSON(e) ==
  [message |-> message(e),
   stack |-> IF e.cls = "UserCodeRuntimeError" THEN RuntimeStack(e) ELSE <<>>,
   location |-> location(e)]

(***************************************************************************)
(* The inputs of a call and what the compiler makes of them.               *)
(* An input is [userCode, outputType, argsTypes, additionalSourceFiles];   *)
(* an additional source file is [fileName, text].                          *)
(***************************************************************************)
T_string == <<"string">>
T_number == <<"number">>

\* an additional file whose whole text is the expression `number`
NumberFile == [fileName |-> <<"n", ".ts">>, text |-> <<"number">>]

\* additional files that compile cleanly: a module with a side effect at its
\* top level, one that imports it first, a declaration file, a module that
\* throws at its top level and one that imports what no file provides (a
\* side-effect import that does not resolve is no error of the compiler)
EffectFile == [fileName |-> <<"b", ".ts">>, text |-> <<"log('b');">>]
ImportingFile == [fileName |-> <<"a", ".ts">>, text |-> <<"import 'b';", "log('a');">>]
DeclarationFile == [fileName |-> <<"globals", ".d", ".ts">>, text |-> <<"declare global {}">>]
ThrowingFile ==
  [fileName |-> <<"additionalFile", ".ts">>, text |-> <<"export {}", "throw new Error('lib');">>]
UnresolvedFile == [fileName |-> <<"c", ".ts">>, text |-> <<"import 'missing';">>]
\* a module that imports another by the name of its output
ExtensionFile == [fileName |-> <<"e", ".ts">>, text |-> <<"import 'b.js';", "log('e');">>]

\* the module specifier of an import statement; <<>> for any other statement
specifierOf(statement) ==
  CASE statement = "import 'b';" -> <<"b">>
    [] statement = "import 'b.js';" -> <<"b", ".js">>
    [] statement = "import 'missing';" -> <<"missing">>
    [] OTHER -> <<>>

\* vm.Module.dependencySpecifiers: the specifiers of a module's imports, in
\* the order of its text
RECURSIVE dependencySpecifiers(_)
dependencySpecifiers(text) ==
  IF text = <<>> THEN <<>>
  ELSE (IF specifierOf(Head(text)) = <<>> THEN <<>> ELSE <<specifierOf(Head(text))>>)
       \o dependencySpecifiers(Tail(text))

UserCodes ==
  {<<"funcDecl", "annotated", "2", "ret">>,
   <<"funcDecl", "inferred", "2", "ret">>,
   <<"funcDecl", "annotated", "2", "throw">>,
   <<"funcDecl", "annotated", "2", "diag">>}

Input(userCode, outputType, argsTypes, additionalSourceFiles) ==
  [userCode |-> userCode, outputType |-> outputType, argsTypes |-> argsTypes,
   additionalSourceFiles |-> additionalSourceFiles]

\* the calls the callers make: each user source with the types it declares;
\* the annotated function also with one expected argument type and the
\* file NumberFile; the function without annotation and the one with
\* diagnostics of its own also with number as the expected return type
Inputs ==
  {Input(u, T_string, <<T_string, T_number>>, <<>>) : u \in UserCodes}
  \cup {Input(<<"funcDecl", "annotated", "2", "ret">>, T_string, <<T_string>>, <<NumberFile>>),
        Input(<<"funcDecl", "inferred", "2", "ret">>, T_number, <<T_string, T_number>>, <<>>),
        Input(<<"funcDecl", "annotated", "2", "diag">>, T_number, <<T_string, T_number>>,
              <<NumberFile>>)}

ArgValues == {"a1", "a2"}

NodeSpan(node) == Span(HarnessTree[node].start, HarnessTree[node].end)

HarnessDiagnostic(node, code) ==
  Diagnostic(EXECUTION_HARNESS_FILENAME, HarnessTree[node].start,
             HarnessTree[node].end - HarnessTree[node].start, code, "ts")

\* the declared signature of the user's function-like: (s: string, n: number, ..): string
declaredParameterTypes(userCode) ==
  SubSeq(<<T_string, T_number>>, 1, parameterCount(userCode))
declaredReturnType(userCode) == T_string

isDeclarationFile(file) == endsWith(file.fileName, <<".d", ".ts">>)

\* the diagnostics of the harness file for a user source and expected types
HarnessDiagnostics(in) ==
  LET u == in.userCode
  IN CASE formOf(u) = "noDefault" -> <<HarnessDiagnostic(9, 1192)>>
       [] formOf(u) = "notModule" -> <<HarnessDiagnostic(12, 2306)>>
       [] formOf(u) \in NonCallableForms ->
            <<HarnessDiagnostic(executionHarnessDefaultFunctionIdentifierNode, 2349)>>
       [] OTHER ->
            (IF in.outputType # declaredReturnType(u)
             THEN <<HarnessDiagnostic(executionHarnessResultNode, 2322)>> ELSE <<>>)
            \o
            (IF Len(in.argsTypes) # Len(declaredParameterTypes(u))
             THEN <<HarnessDiagnostic(executionHarnessDefaultFunctionCallNode, 2554)>>
             ELSE IF in.argsTypes # declaredParameterTypes(u)
             THEN <<HarnessDiagnostic(executionHarnessArgumentsNode, 2345)>>
             ELSE <<>>)

\* the diagnostics inside the user's own file
UserDiagnostics(in) ==
  IF bodyOf(in.userCode) = "diag"
  THEN <<Diagnostic(USER_CODE_FILENAME, 14, 2, 2322, "ts")>> ELSE <<>>

\* the diagnostics inside an additional file
FileDiagnostics(file) ==
  IF file.text = <<"number">> THEN <<Diagnostic(file.fileName, 0, 6, 2693, "ts")>>
  ELSE <<>>

RECURSIVE AdditionalDiagnostics(_)
AdditionalDiagnostics(files) ==
  IF files = <<>> THEN <<>>
  ELSE FileDiagnostics(Head(files)) \o AdditionalDiagnostics(Tail(files))

\* ts.getPreEmitDiagnostics(program), in the order the compiler yields them
getPreEmitDiagnostics(in) ==
  HarnessDiagnostics(in) \o UserDiagnostics(in) \o AdditionalDiagnostics(in.additionalSourceFiles)

\* program.emit().diagnostics
emitDiagnostics(in) ==
  IF bodyOf(in.userCode) = "diag"
  THEN <<Diagnostic(USER_CODE_FILENAME, 2, 1, 4025, "ts")>> ELSE <<>>

\* the file-bearing diagnostics of a type-check, in the compiler's order
FileBearing(in) ==
  SelectSeq(getPreEmitDiagnostics(in) \o emitDiagnostics(in), LAMBDA d : d.file # NoFile)

\* the source map the compiler writes for the user file: the emitted lines
\* follow the source lines, with one segment at the start of line 1, one at
\* its column 4 and one at column 2 of line 2
SourceMapOf(userCode) ==
  {Segment(1, 0, 1, 0), Segment(1, 4, 1, 4), Segment(2, 2, 2, 2)}

\* the import statements of the harness: one per non-declaration additional
\* file, by its name without extension, then the user file
RECURSIVE AdditionalImports(_)
AdditionalImports(files) ==
  IF files = <<>> THEN <<>>
  ELSE (IF isDeclarationFile(Head(files)) THEN <<>> ELSE <<removeExt(Head(files).fileName)>>)
       \o AdditionalImports(Tail(files))

\* a harness that imports the user file alone
HarnessImports_user(in) == <<USER_CODE_FILENAME>>

\* the harness's imports in the order of its text
HarnessImports(in) == AdditionalImports(in.additionalSourceFiles) \o <<USER_CODE_FILENAME>>

\* the sources of the program that are not declaration files: the additional
\* files, the user file and the harness
RECURSIVE EmittedSources(_)
EmittedSources(files) ==
  IF files = <<>> THEN <<>>
  ELSE (IF isDeclarationFile(Head(files)) THEN <<>> ELSE <<Head(files)>>)
       \o EmittedSources(Tail(files))

\* the name of the output of a source: the extension .ts gives way to .js
outputName(fileName) ==
  IF endsWith(fileName, <<".ts">>) THEN SubSeq(fileName, 1, Len(fileName) - 1) \o <<".js">>
  ELSE fileName \o <<".js">>

\* the files the compiler writes: for every non-declaration source a .js file
\* and its .js.map
EmittedFiles(in) ==
  LET sources == [k \in 1..Len(EmittedSources(in.additionalSourceFiles)) |->
                    EmittedSources(in.additionalSourceFiles)[k].fileName]
                 \o <<USER_CODE_FILENAME, EXECUTION_HARNESS_FILENAME>>
  IN UNION {{outputName(sources[k]), outputName(sources[k]) \o <<".map">>} :
              k \in 1..Len(sources)}

\* the emitted additional modules, each under the name writeFile gives it
\* and with the statements of its source
emittedModules(in) ==
  [k \in 1..Len(EmittedSources(in.additionalSourceFiles)) |->
     [identifier |-> removeExt(outputName(EmittedSources(in.additionalSourceFiles)[k].fileName)),
      text |-> EmittedSources(in.additionalSourceFiles)[k].text]]

\* a writeFile that puts every output into the JavaScript map
jsFileMapOf_all(in) ==
  {removeExt(f) : f \in EmittedFiles(in)}

\* writeFile: outputs ending in .map go to the source-map map, the others to
\* the JavaScript map, each keyed by its name without extension
jsFileMapOf(in) ==
  {removeExt(f) : f \in {g \in EmittedFiles(in) : ~endsWith(g, <<".map">>)}}

sourceMapMapOf(in) ==
  {removeExt(removeExt(f)) : f \in {g \in EmittedFiles(in) : endsWith(g, <<".map">>)}}

\* CompilationArtifacts / CacheItem: the emitted modules (the harness with its
\* import specifiers, the user module by the source it was emitted from) and
\* the user file's source map
Artifacts(in) ==
  [jsFileMap |-> jsFileMapOf(in), imports |-> HarnessImports(in),
   modules |-> emittedModules(in),
   userCode |-> in.userCode, sourceMap |-> SourceMapOf(in.userCode)]

NoArtifacts ==
  [jsFileMap |-> {}, imports |-> <<>>, modules |-> <<>>, userCode |-> <<>>,
   sourceMap |-> {}]

(***************************************************************************)
(* preProcess.  Its synchronous part runs the pre-emit diagnostics loop;   *)
(* after the source map consumer is ready it runs the emit diagnostics     *)
(* loop and returns.                                                       *)
(***************************************************************************)
Ok(artifacts) == [kind |-> "Ok", artifacts |-> artifacts, errs |-> <<>>]
Err(errs) == [kind |-> "Err", artifacts |-> NoArtifacts, errs |-> errs]

ThrownList(what) == [threw |-> what, value |-> <<>>]

(***************************************************************************)
(* The mapping of diagnostic messages.  A table of mappers gives for some  *)
(* codes a function from the message text to a text or to undefined.  A    *)
(* line of the mapped message is the sequence of its pieces: one "  " for  *)
(* every indentation, then the text.                                       *)
(***************************************************************************)
UndefinedText == "undefined"

Text2792 ==
  "Cannot find module 'x'. Did you mean to set the 'moduleResolution' option to 'node', or to add aliases to the 'paths' option?"

\* defaultErrorCodeMessageMappers[2792]: the text before the question, when
\* the message has that shape
mapper2792(msg) == IF msg = Text2792 THEN "Cannot find module 'x'." ELSE UndefinedText

\* a mapper of the caller, for 2741
mapper2741(msg) ==
  IF msg = "Property 'duration' is missing in type 'A' but required in type 'B'."
  THEN "Missing property: duration"
  ELSE UndefinedText

\* the tables: of the package, of a caller, and the empty one
MapperTables == {"default", "custom", "none"}

registered(table, code) ==
  \/ table = "default" /\ code = 2792
  \/ table = "custom" /\ code = 2741

applyMapper(table, code, msg) == IF code = 2792 THEN mapper2792(msg) ELSE mapper2741(msg)

\* callMapper: the text itself without a mapper for the code, else what the
\* mapper returns; undefined from the mapper makes it throw
callMapper(msg, code, errorCodeMessageMappers) ==
  IF ~registered(errorCodeMessageMappers, code) THEN Returned(msg)
  ELSE IF applyMapper(errorCodeMessageMappers, code, msg) = UndefinedText
  THEN [threw |-> "Insufficient message mapper found for ts diagnostic code", value |-> msg]
  ELSE Returned(applyMapper(errorCodeMessageMappers, code, msg))

\* `  ${m}` for every line
indent(lines) == [k \in 1..Len(lines) |-> [lines[k] EXCEPT !.pieces = <<"  ">> \o @]]

\* the line of a text that went through callMapper; threw stays with it
Line(mapped) == [pieces |-> <<mapped.value>>, threw |-> mapped.threw]

\* the two revisions of mapDiagnosticMessageChain on a chain object: the one
\* of utils/errorMessageMapping.ts maps the node and indents what its next
\* nodes give, the one at the end of UserCodeRunner.ts only concatenates what
\* its next nodes give
RECURSIVE mapDiagnosticMessageChain(_, _, _)
RECURSIVE mapNext(_, _, _)
mapNext(mapping, next, errorCodeMessageMappers) ==
  IF next = <<>> THEN <<>>
  ELSE (IF mapping = "utils"
        THEN indent(mapDiagnosticMessageChain(mapping, Head(next), errorCodeMessageMappers))
        ELSE mapDiagnosticMessageChain(mapping, Head(next), errorCodeMessageMappers))
       \o mapNext(mapping, Tail(next), errorCodeMessageMappers)

mapDiagnosticMessageChain(mapping, msg, errorCodeMessageMappers) ==
  IF mapping = "utils"
  THEN <<Line(callMapper(msg.messageText, msg.code, errorCodeMessageMappers))>>
       \o mapNext(mapping, msg.next, errorCodeMessageMappers)
  ELSE mapNext(mapping, msg.next, errorCodeMessageMappers)

\* mapDiagnosticMessage(diagnostic): the message text is a string when the
\* diagnostic has no chain, else the chain object with the diagnostic's code
mapDiagnosticMessageLines(mapping, diagnostic, errorCodeMessageMappers) ==
  IF diagnostic.next = <<>>
  THEN <<Line(callMapper(diagnostic.messageText, diagnostic.code, errorCodeMessageMappers))>>
  ELSE mapDiagnosticMessageChain(
         mapping,
         DiagnosticMessageChain(diagnostic.code, diagnostic.messageText, diagnostic.next),
         errorCodeMessageMappers)

\* the first callMapper that throws ends the mapping
thrownBy(lines) ==
  IF \E k \in 1..Len(lines) : lines[k].threw # ""
  THEN lines[CHOOSE k \in 1..Len(lines) :
               lines[k].threw # "" /\ \A j \in 1..(k - 1) : lines[j].threw = ""].threw
  ELSE ""

mapped(lines) ==
  [threw |-> thrownBy(lines),
   value |-> IF thrownBy(lines) # "" THEN <<>>
             ELSE [k \in 1..Len(lines) |-> lines[k].pieces]]

mapDiagnosticMessage(mapping, diagnostic, errorCodeMessageMappers) ==
  mapped(mapDiagnosticMessageLines(mapping, diagnostic, errorCodeMessageMappers))

(***************************************************************************)
(* The Result monad.  A result holds a value and an error, one of them the *)
(* symbol None; its payloads here are names of JavaScript values.          *)
(***************************************************************************)
None == "Symbol(None)"

Result_Ok(value) == [value |-> value, error |-> None]
Result_Err(error) == [value |-> None, error |-> error]

isOk(result) == result.error = None /\ result.value # None
isErr(result) == result.value = None /\ result.error # None

\* unwrap throws the error of an Err, unwrapErr the value of an Ok
unwrap(result) ==
  IF isErr(result) THEN [threw |-> TRUE, value |-> result.error]
  ELSE [threw |-> FALSE, value |-> result.value]

unwrapErr(result) ==
  IF isOk(result) THEN [threw |-> TRUE, value |-> result.value]
  ELSE [threw |-> FALSE, value |-> result.error]

SerializedResultType == [Ok |-> "Result.Ok", Err |-> "Result.Err"]

Result_toJSON(result) ==
  IF isOk(result) THEN [type |-> SerializedResultType.Ok, value |-> unwrap(result).value]
  ELSE [type |-> SerializedResultType.Err, value |-> unwrapErr(result).value]

\* a fromJSON that takes every serialization for an Ok
Result_fromJSON_ok(json) == [threw |-> "", value |-> Result_Ok(json.value)]

Result_fromJSON(json) ==
  IF json.type = SerializedResultType.Ok THEN [threw |-> "", value |-> Result_Ok(json.value)]
  ELSE IF json.type = SerializedResultType.Err
  THEN [threw |-> "", value |-> Result_Err(json.value)]
  ELSE [threw |-> "Invalid JSON serialization of Result", value |-> Result_Err(None)]

RECURSIVE getDiagnosticMessageChainCodes(_)
getDiagnosticMessageChainCodes(diagnosticMessageChain) ==
  {diagnosticMessageChain.code}
  \cup UNION {getDiagnosticMessageChainCodes(diagnosticMessageChain.next[k]) :
               k \in 1..Len(diagnosticMessageChain.next)}

\* the codes of a diagnostic and of its message chain
getDiagnosticCodes(diagnostic) ==
  {diagnostic.code}
  \cup UNION {getDiagnosticMessageChainCodes(diagnostic.next[k]) :
               k \in 1..Len(diagnostic.next)}

\* a loop that stops at the first diagnostic it turned into an error
forEachDiagnostic_first(revision, diagnostics, userCode, benign, sourceErrors) ==
  IF diagnostics = <<>> \/ sourceErrors # <<>> THEN Returned(sourceErrors)
  ELSE LET built == UserCodeTypeError_new(revision, Head(diagnostics), userCode)
       IN IF Head(diagnostics).file = NoFile THEN ThrownList("Unhandled diagnostic")
          ELSE IF built.threw # "" THEN ThrownList(built.threw)
          ELSE Returned(<<built.value>>)

\* a forEach over diagnostics: a diagnostic with a file appends the error
\* UserCodeTypeError.new builds from it (pushError), one without a file is
\* skipped when one of its codes is in `benign` and throws otherwise
RECURSIVE forEachDiagnostic(_, _, _, _, _)
RECURSIVE pushError(_, _, _, _, _, _)
pushError(revision, diagnostics, userCode, benign, sourceErrors, built) ==
  IF built.threw # "" THEN ThrownList(built.threw)
  ELSE forEachDiagnostic(revision, Tail(diagnostics), userCode, benign,
                         Append(sourceErrors, built.value))

forEachDiagnostic(revision, diagnostics, userCode, benign, sourceErrors) ==
  IF diagnostics = <<>> THEN Returned(sourceErrors)
  ELSE IF Head(diagnostics).file # NoFile THEN
    pushError(revision, diagnostics, userCode, benign, sourceErrors,
              UserCodeTypeError_new(revision, Head(diagnostics), userCode))
  ELSE IF getDiagnosticCodes(Head(diagnostics)) \cap benign # {} THEN
    forEachDiagnostic(revision, Tail(diagnostics), userCode, benign, sourceErrors)
  ELSE ThrownList("Unhandled diagnostic")

\* the forEach over the pre-emit diagnostics: 1420 is let pass
preEmitForEach(revision, diagnostics, userCode) ==
  forEachDiagnostic(revision, diagnostics, userCode, {1420}, <<>>)

\* an emit loop that lets pass what the pre-emit loop lets pass
emitForEach_benign(revision, diagnostics, userCode, sourceErrors) ==
  forEachDiagnostic(revision, diagnostics, userCode, {1420}, sourceErrors)

\* the forEach over the emit diagnostics: nothing without a file is let pass
emitForEach(revision, diagnostics, userCode, sourceErrors) ==
  forEachDiagnostic(revision, diagnostics, userCode, {}, sourceErrors)

preEmitLoop(revision, in) ==
  preEmitForEach(revision, getPreEmitDiagnostics(in), in.userCode)

emitLoop(revision, in, sourceErrors) ==
  emitForEach(revision, emitDiagnostics(in), in.userCode, sourceErrors)

preProcessReturn(in, sourceErrors) ==
  IF sourceErrors # <<>> THEN Err(sourceErrors) ELSE Ok(Artifacts(in))

\* preProcess from its first line to its last, as one function
preProcess(revision, in) ==
  LET first == preEmitLoop(revision, in)
  IN IF first.threw # "" THEN first
     ELSE LET second == emitLoop(revision, in, first.value)
          IN IF second.threw # "" THEN second
             ELSE Returned(preProcessReturn(in, second.value))

(***************************************************************************)
(* The cache key and the cache.  The cache is the sequence of its entries, *)
(* most recently used first.                                               *)
(***************************************************************************)
RECURSIVE texts(_)
texts(files) ==
  IF files = <<>> THEN <<>> ELSE <<<<":">> \o Head(files).text>> \o texts(Tail(files))

\* the string the key is the hash of
keyMaterial(in) ==
  in.userCode \o <<":">> \o in.outputType \o <<":">> \o join(in.argsTypes, ":")
  \o concatAll(texts(in.additionalSourceFiles))

\* SHA-1 in base64, taken to be free of collisions
hash(str) == <<"sha1">> \o str

\* the capacity of the cache of revision "lru" (option `max`)
CacheMax == 1

\* the cacheOptions of the caller, spread over the defaults: a bound on the
\* number of entries with a time to live, or a bound on the size of the
\* entries (maxSize, sizeCalculation) that no entry meets, so that set stores
\* nothing; NoOptions for the runner that is handed a Map
CacheOptions == {"max", "maxSize"}
NoOptions == "none"

has(c, key) == \E k \in 1..Len(c) : c[k].key = key

get(c, key) == c[CHOOSE k \in 1..Len(c) : c[k].key = key]

without(c, key) == SelectSeq(c, LAMBDA item : item.key # key)

\* LRUCache.get moves the entry to the front
touch(c, key) == <<get(c, key)>> \o without(c, key)

\* LRUCache.set puts the entry in front and evicts the least recently used
\* ones beyond the capacity
set_lru(cacheOptions, c, key, result) ==
  LET put == <<[key |-> key, result |-> result]>> \o without(c, key)
  IN IF cacheOptions = "maxSize" THEN without(c, key)
     ELSE SubSeq(put, 1, IF Len(put) > CacheMax THEN CacheMax ELSE Len(put))

\* Map.set
set(c, key, result) ==
  IF has(c, key)
  THEN [k \in 1..Len(c) |-> IF c[k].key = key THEN [key |-> key, result |-> result] ELSE c[k]]
  ELSE Append(c, [key |-> key, result |-> result])

(***************************************************************************)
(* Evaluation.  A value is the user's function (by its source) applied to  *)
(* an argument list; the context's __args and __result hold such things.   *)
(***************************************************************************)
Value(fn, args) == [fn |-> fn, args |-> args]
UndefinedValue == Value(<<>>, "")
NoArgs == ""

HostFrame == Frame(<<"node:internal/vm/module">>, "evaluate", 1, 1)
HarnessFrame == Frame(EXECUTION_HARNESS_FILENAME, "null", 2, 1)

\* `throw new Error(..)` inside a helper the default export calls
UserFault ==
  [message |-> "boom",
   stack |-> <<Frame(USER_CODE_FILENAME, "helper", 2, 3),
               Frame(USER_CODE_FILENAME, "F", 1, 5), HarnessFrame, HostFrame>>]

\* the fault the vm raises when the timeout expires
TimeoutFault ==
  [message |-> "Script execution timed out", stack |-> <<HostFrame>>]

\* `throw new Error(..)` at the top level of an additional file
LibraryFault ==
  [message |-> "lib", stack |-> <<Frame(<<"additionalFile">>, "null", 2, 7), HostFrame>>]

\* the harness's statement, as a step of an evaluation
DefaultExportCall == <<"__result = defaultExport(...__args)">>

\* the linker callback's key for a specifier
moduleKey(revision, specifier) ==
  IF revision = "lru" THEN specifier ELSE removeExt(specifier)

\* the text of the module the cache holds under an identifier: of files with
\* one stripped name the last written stays; the user module imports nothing
moduleText(artifacts, identifier) ==
  LET held == {k \in 1..Len(artifacts.modules) : artifacts.modules[k].identifier = identifier}
  IN IF held = {} THEN <<>>
     ELSE artifacts.modules[CHOOSE k \in held : \A j \in held : j <= k].text

\* the evaluation of a module graph: every requested module of `specifiers`
\* in turn, each after the modules it requests itself and none twice
RECURSIVE visit(_, _, _, _, _)
visit(revision, artifacts, specifiers, evaluated, ancestors) ==
  IF specifiers = <<>> THEN evaluated
  ELSE IF \/ moduleKey(revision, Head(specifiers)) \in ancestors
          \/ \E k \in 1..Len(evaluated) : evaluated[k] = moduleKey(revision, Head(specifiers))
       THEN visit(revision, artifacts, Tail(specifiers), evaluated, ancestors)
       ELSE visit(revision, artifacts, Tail(specifiers),
                  Append(visit(revision, artifacts,
                               dependencySpecifiers(
                                 moduleText(artifacts, moduleKey(revision, Head(specifiers)))),
                               evaluated,
                               ancestors \cup {moduleKey(revision, Head(specifiers))}),
                         moduleKey(revision, Head(specifiers))),
                  ancestors)

\* the modules of the harness's graph in the order their bodies run
evaluationOrder(revision, artifacts) ==
  visit(revision, artifacts, artifacts.imports, <<>>, {EXECUTION_HARNESS_FILENAME})

throwsAtTopLevel(text) == \E k \in 1..Len(text) : text[k] = "throw new Error('lib');"

\* the bodies run in order; one that throws ends the evaluation there
runModules(order, artifacts) ==
  LET thrown == {k \in 1..Len(order) : throwsAtTopLevel(moduleText(artifacts, order[k]))}
  IN IF thrown = {} THEN order
     ELSE SubSeq(order, 1, CHOOSE k \in thrown : \A j \in thrown : k <= j)

\* harnessModule.evaluate: the imported modules run first, and a throw at the
\* top level of one of them ends the evaluation; then the harness runs
\* `__result = defaultExport(...__args)` against the global object it finds;
\* a "throw" body throws for the argument list a1 and loops for ever for any
\* other.  trace lists the steps taken.
evaluateBodies(order, bodies, artifacts, global) ==
  IF bodies # order
  THEN [fault |-> LibraryFault, global |-> global, trace |-> bodies]
  ELSE IF bodyOf(artifacts.userCode) = "throw"
  THEN [fault |-> IF global.args = "a1" THEN UserFault ELSE TimeoutFault,
        global |-> global, trace |-> Append(bodies, DefaultExportCall)]
  ELSE [fault |-> NoFault,
        global |-> [global EXCEPT !.result = Value(artifacts.userCode, global.args)],
        trace |-> Append(bodies, DefaultExportCall)]

evaluate(revision, artifacts, global) ==
  evaluateBodies(evaluationOrder(revision, artifacts),
                 runModules(evaluationOrder(revision, artifacts), artifacts),
                 artifacts, global)

\* a context set-up that resets the result but leaves the arguments it finds
putIntoContext_stale(global, args) == [global EXCEPT !.result = UndefinedValue]

\* "Put args and result into context"
putIntoContext(global, args) == [args |-> args, result |-> UndefinedValue]

\* the linker callback: does the specifier name a module of the cache?
resolves(revision, moduleCache, specifier) ==
  IF revision = "lru" THEN specifier \in moduleCache
  ELSE removeExt(specifier) \in moduleCache

\* harnessModule.link: the linker is asked for the harness's import
\* specifiers and for those of every module it returns
links(revision, artifacts) ==
  /\ \A k \in 1..Len(artifacts.imports) :
        resolves(revision, artifacts.jsFileMap, artifacts.imports[k])
  /\ \A k \in 1..Len(artifacts.modules) :
        \A j \in 1..Len(dependencySpecifiers(
                           moduleText(artifacts, artifacts.modules[k].identifier))) :
           resolves(revision, artifacts.jsFileMap,
                    dependencySpecifiers(
                      moduleText(artifacts, artifacts.modules[k].identifier))[j])

\* a return that does not catch: whatever the evaluation did, Ok(context.__result)
settle_uncaught(fault, global, artifacts) ==
  [kind |-> "Ok", value |-> global.result, errs |-> <<>>, threw |-> ""]

\* the last two statements of executeUserCode
settle(fault, global, artifacts) ==
  IF fault = NoFault
  THEN [kind |-> "Ok", value |-> global.result, errs |-> <<>>, threw |-> ""]
  ELSE [kind |-> "Err", value |-> UndefinedValue,
        errs |-> <<UserCodeRuntimeError_new(fault, artifacts.sourceMap, artifacts.userCode)>>,
        threw |-> ""]

(***************************************************************************)
(* The runner.  Each task is a caller that owns one context and makes its  *)
(* calls one after the other with it; the tasks share the runner and its   *)
(* cache.  calls[t] is the call in flight of task t.                       *)
(***************************************************************************)
Tasks == {"t1", "t2"}

NoInput ==
  [userCode |-> <<>>, outputType |-> <<>>, argsTypes |-> <<>>,
   additionalSourceFiles |-> <<>>]
NoOutcome == [kind |-> "", value |-> UndefinedValue, errs |-> <<>>, threw |-> ""]
ErrOutcome(errs) == [kind |-> "Err", value |-> UndefinedValue, errs |-> errs, threw |-> ""]
ThrewOutcome(what) == [kind |-> "Threw", value |-> UndefinedValue, errs |-> <<>>, threw |-> what]

\* pc: where the call stands; began: the number of the call among the calls
\* of the runner; ended: the number of calls begun when it settled; handed: the context as the caller handed it in;
\* compiled: did this call run preProcess; evaluated: did it reach
\* harnessModule.evaluate
IdleCall ==
  [pc |-> "idle", began |-> 0, ended |-> 0,
   input |-> NoInput, args |-> NoArgs, key |-> <<>>,
   handed |-> [args |-> NoArgs, result |-> UndefinedValue],
   sourceErrors |-> <<>>, artifacts |-> NoArtifacts, fault |-> NoFault,
   compiled |-> FALSE, evaluated |-> FALSE, outcome |-> NoOutcome]

Init ==
  /\ rev \in Revisions
  /\ options \in (IF rev = "lru" THEN CacheOptions ELSE {NoOptions})
  /\ cache = <<>>
  /\ context = [t \in Tasks |-> [args |-> NoArgs, result |-> UndefinedValue]]
  /\ calls = [t \in Tasks |-> IdleCall]
  /\ started = 0
  /\ probe = <<>>

\* a call whose promise stays pending
finish_pending(t, call, outcome) ==
  calls' = [calls EXCEPT ![t] = [call EXCEPT !.outcome = outcome]]

\* the call throws or returns: the promise of executeUserCode settles
finish(t, call, outcome) ==
  calls' = [calls EXCEPT ![t] =
              [call EXCEPT !.pc = "done", !.outcome = outcome,
                           !.ended = IF started < call.began THEN call.began ELSE started]]

\* from "Put args and result into context" to the call of link
load(t, call, artifacts) ==
  /\ context' = [context EXCEPT ![t] = putIntoContext(context[t], call.args)]
  /\ calls' = [calls EXCEPT ![t] = [call EXCEPT !.pc = "linking", !.artifacts = artifacts]]

\* the key is in the cache: revision "lru" takes the artifacts from it,
\* revision "map" the result, which may be an Err
cacheHit(t, call, result) ==
  IF rev = "lru" THEN
    /\ cache' = touch(cache, call.key)
    /\ load(t, call, result.artifacts)
  ELSE IF result.kind = "Err" THEN
    /\ finish(t, call, ErrOutcome(result.errs))
    /\ UNCHANGED <<cache, context>>
  ELSE
    /\ load(t, call, result.artifacts)
    /\ UNCHANGED cache

\* the key is not in the cache: preProcess runs up to its await
cacheMiss(t, call, first) ==
  /\ IF first.threw # ""
     THEN finish(t, call, ThrewOutcome(first.threw))
     ELSE calls' = [calls EXCEPT ![t] =
            [call EXCEPT !.pc = "sourceMap", !.sourceErrors = first.value]]
  /\ UNCHANGED <<cache, context>>

cacheLookup(t, call) ==
  IF has(cache, call.key) THEN cacheHit(t, call, get(cache, call.key).result)
  ELSE cacheMiss(t, [call EXCEPT !.compiled = TRUE], preEmitLoop(rev, call.input))

\* executeUserCode from its first line to its first await, while fewer than
\* `bound` calls were made
CallWithin(t, bound) ==
  /\ calls[t].pc = "idle"
  /\ started < bound
  /\ started' = started + 1
  /\ \E in \in Inputs, args \in ArgValues :
       cacheLookup(t, [IdleCall EXCEPT !.began = started + 1, !.input = in, !.args = args,
                                       !.key = hash(keyMaterial(in)),
                                       !.handed = context[t]])
  /\ UNCHANGED <<rev, options, probe>>

Call(t) == CallWithin(t, MaxCalls)

\* revision "lru", after user_file_cache.set: user_file_cache.get(..)! and on
afterSet(t, call, stored) ==
  IF has(stored, call.key) THEN
    /\ cache' = touch(stored, call.key)
    /\ load(t, call, get(stored, call.key).result.artifacts)
  ELSE
    /\ cache' = stored
    /\ finish(t, call, ThrewOutcome("Cannot destructure property 'jsFileMap' of undefined"))
    /\ UNCHANGED context

\* executeUserCode with the result of preProcess in hand
afterPreProcess(t, call, result) ==
  IF rev = "lru" THEN
    IF result.kind = "Err" THEN
      /\ finish(t, call, ErrOutcome(result.errs))
      /\ UNCHANGED <<cache, context>>
    ELSE afterSet(t, call, set_lru(options, cache, call.key, result))
  ELSE
    /\ cache' = set(cache, call.key, result)
    /\ IF result.kind = "Err"
       THEN finish(t, call, ErrOutcome(result.errs)) /\ UNCHANGED context
       ELSE load(t, call, result.artifacts)

\* preProcess after the emit diagnostics loop
afterEmit(t, call, second) ==
  IF second.threw # "" THEN
    /\ finish(t, call, ThrewOutcome(second.threw))
    /\ UNCHANGED <<cache, context>>
  ELSE afterPreProcess(t, call, preProcessReturn(call.input, second.value))

\* from the source map consumer being ready to the next await or the return
SourceMapReady(t) ==
  /\ calls[t].pc = "sourceMap"
  /\ afterEmit(t, calls[t], emitLoop(rev, calls[t].input, calls[t].sourceErrors))
  /\ UNCHANGED <<rev, options, started, probe>>

\* the link resolves or throws; evaluate runs the module graph to its end,
\* its fault or its timeout
Linked(t) ==
  /\ calls[t].pc = "linking"
  /\ LET call == calls[t]
     IN IF ~links(rev, call.artifacts) THEN
          /\ finish(t, call, ThrewOutcome("Unable to resolve dependency"))
          /\ UNCHANGED context
        ELSE
          LET run == evaluate(rev, call.artifacts, context[t])
          IN /\ context' = [context EXCEPT ![t] = run.global]
             /\ calls' = [calls EXCEPT ![t] =
                  [call EXCEPT !.pc = "evaluating", !.evaluated = TRUE, !.fault = run.fault]]
  /\ UNCHANGED <<rev, options, cache, started, probe>>

\* the promise of evaluate settles: return Ok(context.__result) or the catch
Settled(t) ==
  /\ calls[t].pc = "evaluating"
  /\ finish(t, calls[t], settle(calls[t].fault, context[t], calls[t].artifacts))
  /\ UNCHANGED <<rev, options, cache, context, started, probe>>

\* the caller takes the outcome and is free to call again
Collected(t) ==
  /\ calls[t].pc = "done"
  /\ calls' = [calls EXCEPT ![t] = IdleCall]
  /\ UNCHANGED <<rev, options, cache, context, started, probe>>

\* the time to live of the entries of the LRU cache elapses
Expire ==
  /\ rev = "lru"
  /\ cache # <<>>
  /\ cache' = <<>>
  /\ UNCHANGED <<rev, options, context, calls, started, probe>>

Next ==
  \/ \E t \in Tasks :
       \/ Call(t)
       \/ SourceMapReady(t)
       \/ Linked(t)
       \/ Settled(t)
       \/ Collected(t)
  \/ Expire

Spec == Init /\ [][Next]_vars

\* The awaits of a call resolve: the source map consumer is built, the link
\* resolves or rejects, and evaluate settles, at the latest when the timeout
\* given to it expires; the event loop then runs the continuation.  When a
\* caller calls, collects or the cache expires is left open.
Fairness ==
  \A t \in Tasks :
    /\ WF_vars(SourceMapReady(t))
    /\ WF_vars(Linked(t))
    /\ WF_vars(Settled(t))

\* the runner under that assumption, its callers making up to MaxLiveCalls
\* calls
CallLive(t) == CallWithin(t, MaxLiveCalls)

NextLive ==
  \/ \E t \in Tasks :
       \/ CallLive(t)
       \/ SourceMapReady(t)
       \/ Linked(t)
       \/ Settled(t)
       \/ Collected(t)
  \/ Expire

SpecLive == Init /\ [][NextLive]_vars /\ Fairness

(***************************************************************************)
(* The error classes on their own.  A probe is one compiler diagnostic or  *)
(* one runtime fault together with the user source it arose from; the      *)
(* error object is built from it as preProcess and executeUserCode build   *)
(* it, and its getters are read.                                           *)
(***************************************************************************)
ProbeSources ==
  {<<form, annotation, parameters, "ret">> :
     form \in CallableForms, annotation \in Annotations, parameters \in ParameterLists}
  \cup {<<form, "inferred", "0", "ret">> : form \in Forms \ CallableForms}

\* Cannot find name: the embedder named a type that no file declares, in the
\* expected return type or in the expected argument types
UnknownTypeDiagnostics == {HarnessDiagnostic(34, 2304), HarnessDiagnostic(21, 2304)}

\* the diagnostics the compiler can report on the harness for a user source
ProbeHarnessDiagnostics(userCode) ==
  (CASE formOf(userCode) = "noDefault" -> {HarnessDiagnostic(9, 1192)}
     [] formOf(userCode) = "notModule" -> {HarnessDiagnostic(12, 2306)}
     [] formOf(userCode) \in NonCallableForms ->
          {HarnessDiagnostic(executionHarnessDefaultFunctionIdentifierNode, 2349)}
     [] OTHER ->
          {HarnessDiagnostic(executionHarnessResultNode, 2322),
           HarnessDiagnostic(executionHarnessArgumentsNode, 2345),
           HarnessDiagnostic(executionHarnessDefaultFunctionCallNode, 2554)})
  \cup UnknownTypeDiagnostics

\* diagnostics inside the user file and inside additional files
ProbeFileDiagnostics ==
  {Diagnostic(USER_CODE_FILENAME, 0, 2, 2322, "ts"),
   Diagnostic(USER_CODE_FILENAME, 14, 2, 2322, "ts"),
   Diagnostic(<<"n", ".ts">>, 0, 6, 2693, "ts"),
   Diagnostic(<<"lib/", "globals", ".ts">>, 30, 2, 2322, "ts")}

\* the frames a captured stack can hold: of the user module (at the start of
\* line 1, inside line 2, and on a line the source map has nothing for), of
\* additional modules, of the harness and of the host
ProbeFrames ==
  {Frame(USER_CODE_FILENAME, "F", 1, 1),
   Frame(USER_CODE_FILENAME, "helper", 2, 3),
   Frame(USER_CODE_FILENAME, "g", 3, 1),
   Frame(<<"globals">>, "throwingLibraryFunction", 1, 5),
   Frame(<<"my", "__user_file">>, "h", 2, 3),
   HarnessFrame, HostFrame}

RECURSIVE Stacks(_)
Stacks(n) ==
  IF n = 0 THEN {<<>>}
  ELSE LET shorter == Stacks(n - 1)
       IN shorter \cup {<<f>> \o st : f \in ProbeFrames, st \in {x \in shorter : Len(x) = n - 1}}

NoError == ErrorObject("", NoDiagnostic, NoDiagnostic, NoFault, {}, <<>>)
NotRead == Location(Undefined, Undefined)

\* diagnostics without a file: a type library the program looked for in vain
\* (its chain ends in 1420, "entry point for implicit type library") and a
\* file that could not be written; and one inside the user file
ImplicitLibraryDiagnostic ==
  Chained(Diagnostic(NoFile, Undefined, Undefined, 2688, "ts"),
          <<DiagnosticMessageChain(1430, "ts", <<DiagnosticMessageChain(1420, "ts", <<>>)>>)>>)

ProbeListDiagnostics ==
  {ImplicitLibraryDiagnostic,
   Diagnostic(NoFile, Undefined, Undefined, 5033, "ts"),
   Diagnostic(USER_CODE_FILENAME, 14, 2, 2322, "ts")}

RECURSIVE ProbeLists(_)
ProbeLists(n) ==
  IF n = 0 THEN {<<>>}
  ELSE LET shorter == ProbeLists(n - 1)
       IN shorter \cup {Append(l, d) : l \in {x \in shorter : Len(x) = n - 1},
                                        d \in ProbeListDiagnostics}

\* lists: what the compiler reports before and at the emit, for the probes of
\* preProcess's two loops; errors: the sourceErrors the loops end with
\* the diagnostics of the user file of UserTree: every span within the file
SpanDiagnostics ==
  {Diagnostic(USER_CODE_FILENAME, span[1], span[2] - span[1], 1002,
              "Unterminated string literal.") :
     span \in {s \in (0..UserTree[1].end) \X (0..UserTree[1].end) : s[1] <= s[2]}}

\* the nodes of the message chains of the probes: a code and a text
ChainLabels ==
  {<<2345, "Argument of type 'A' is not assignable to parameter of type 'B'.">>,
   <<2741, "Property 'duration' is missing in type 'A' but required in type 'B'.">>,
   <<2792, Text2792>>,
   <<2792, "Cannot find module 'x'.">>}

\* the chains of n nodes, and the sequences of chains of n nodes in all
RECURSIVE ChainsOf(_)
RECURSIVE NextsOf(_)
NextsOf(n) ==
  IF n = 0 THEN {<<>>}
  ELSE UNION {{<<first>> \o rest : first \in ChainsOf(j), rest \in NextsOf(n - j)} :
              j \in 1..n}

ChainsOf(n) ==
  {DiagnosticMessageChain(label[1], label[2], next) :
     label \in ChainLabels, next \in NextsOf(n - 1)}

\* the diagnostics of the user file with a message of up to n nodes
MessageDiagnostics(n) ==
  UNION {{Chained(Diagnostic(USER_CODE_FILENAME, 0, 1, chain.code, chain.messageText),
                  chain.next) : chain \in ChainsOf(k)} : k \in 1..n}

MappingRevisions == {"utils", "inline"}

\* the payloads of the results that are serialized: a boolean, undefined, the
\* symbol None itself, the value of a run and a list of errors
Payloads == {"true", "undefined", None, "'hello world'", "[UserCodeTypeError]"}
ProbeResults == {Result_Ok(p) : p \in Payloads} \cup {Result_Err(p) : p \in Payloads}

\* the additional files of the probes of the module graph, and the lists of
\* up to n of them, no file twice
AuxiliaryFiles ==
  {EffectFile, ImportingFile, ExtensionFile, DeclarationFile, ThrowingFile, UnresolvedFile}

RECURSIVE FileLists(_)
FileLists(n) ==
  IF n = 0 THEN {<<>>}
  ELSE FileLists(n - 1)
       \cup {Append(l, f) : l \in {m \in FileLists(n - 1) : Len(m) = n - 1},
                            f \in AuxiliaryFiles}

Distinct(files) == \A j, k \in 1..Len(files) : j # k => files[j] # files[k]

NewProbe(pc, userCode, diagnostic, fault) ==
  [pc |-> pc, userCode |-> userCode, diagnostic |-> diagnostic, fault |-> fault,
   threw |-> "", error |-> NoError, located |-> FALSE, location |-> NotRead,
   traced |-> FALSE, stack |-> <<>>, lists |-> <<<<>>, <<>>>>, errors |-> <<>>,
   files |-> <<>>, args |-> NoArgs, trace |-> <<>>, outcome |-> NoOutcome,
   replayed |-> NoOutcome, mapping |-> "", mappers |-> "", lines |-> <<>>,
   node |-> NoNode, jsFileMap |-> {},
   result |-> Result_Err(None),
   json |-> [type |-> "", value |-> None], restored |-> Result_Err(None)]

InitErrors ==
  /\ rev \in Revisions
  /\ options = NoOptions
  /\ cache = <<>>
  /\ context = [t \in Tasks |-> [args |-> NoArgs, result |-> UndefinedValue]]
  /\ calls = [t \in Tasks |-> IdleCall]
  /\ started = 0
  /\ \/ \E userCode \in ProbeSources :
          \E diagnostic \in ProbeHarnessDiagnostics(userCode) \cup ProbeFileDiagnostics :
             probe = NewProbe("diagnosed", userCode, diagnostic, NoFault)
     \/ \E st \in Stacks(MaxFrames) :
          probe = NewProbe("faulted", <<"funcDecl", "annotated", "2", "throw">>,
                           NoDiagnostic, [message |-> "boom", stack |-> st])
     \/ \E preEmit \in ProbeLists(MaxDiagnostics), emit \in ProbeLists(MaxDiagnostics - 1) :
          probe = [NewProbe("listed", <<"funcDecl", "annotated", "2", "ret">>,
                            NoDiagnostic, NoFault) EXCEPT !.lists = <<preEmit, emit>>]
     \/ \E files \in {l \in FileLists(MaxFiles) : Distinct(l)},
           body \in {"ret", "throw"}, args \in ArgValues :
          probe = [NewProbe("compiled", <<"funcDecl", "annotated", "2", body>>,
                            NoDiagnostic, NoFault) EXCEPT !.files = files, !.args = args]
     \/ \E diagnostic \in MessageDiagnostics(MaxNodes), mapping \in MappingRevisions,
           mappers \in MapperTables :
          probe = [NewProbe("chained", <<"funcDecl", "annotated", "2", "ret">>,
                            diagnostic, NoFault)
                     EXCEPT !.mapping = mapping, !.mappers = mappers]
     \/ \E diagnostic \in SpanDiagnostics :
          probe = NewProbe("spanned", <<>>, diagnostic, NoFault)
     \/ \E result \in ProbeResults :
          probe = [NewProbe("result", <<>>, NoDiagnostic, NoFault) EXCEPT !.result = result]

\* preProcess: sourceErrors.push(UserCodeTypeError.new(diagnostic, ..))
NewTypeError ==
  /\ probe.pc = "diagnosed"
  /\ LET built == UserCodeTypeError_new(rev, probe.diagnostic, probe.userCode)
     IN probe' = [probe EXCEPT !.pc = "built", !.threw = built.threw,
                               !.error = IF built.threw = "" THEN built.value ELSE NoError]
  /\ UNCHANGED <<rev, options, cache, context, calls, started>>

\* executeUserCode: UserCodeRuntimeError.new(error, sourceMap, ..) in the catch
NewRuntimeError ==
  /\ probe.pc = "faulted"
  /\ probe' = [probe EXCEPT !.pc = "built",
                 !.error = UserCodeRuntimeError_new(probe.fault, SourceMapOf(probe.userCode),
                                                    probe.userCode)]
  /\ UNCHANGED <<rev, options, cache, context, calls, started>>

\* preProcess: the loop over the pre-emit diagnostics, and when it did not
\* throw the loop over the emit diagnostics
afterLoops(p, last) ==
  [p EXCEPT !.pc = "looped", !.threw = last.threw, !.errors = last.value]

afterPreEmit(p, first) ==
  IF first.threw # "" THEN afterLoops(p, first)
  ELSE afterLoops(p, emitForEach(rev, p.lists[2], p.userCode, first.value))

ForEachDiagnostics ==
  /\ probe.pc = "listed"
  /\ probe' = afterPreEmit(probe, preEmitForEach(rev, probe.lists[1], probe.userCode))
  /\ UNCHANGED <<rev, options, cache, context, calls, started>>

\* executeUserCode from the link on, for a program that compiled cleanly
ProbeInput(p) == Input(p.userCode, T_string, <<T_string, T_number>>, p.files)

afterEvaluate(p, artifacts, run) ==
  [p EXCEPT !.pc = "ran", !.fault = run.fault, !.trace = run.trace,
            !.outcome = settle(run.fault, run.global, artifacts)]

afterLink(p, artifacts) ==
  IF ~links(rev, artifacts)
  THEN [p EXCEPT !.pc = "ran", !.threw = "Unable to resolve dependency",
                 !.outcome = ThrewOutcome("Unable to resolve dependency")]
  ELSE afterEvaluate(p, artifacts,
                     evaluate(rev, artifacts, putIntoContext(context["t1"], p.args)))

LinkAndEvaluate ==
  /\ probe.pc = "compiled"
  /\ probe' = [afterLink(probe, Artifacts(ProbeInput(probe))) EXCEPT
                  !.jsFileMap = Artifacts(ProbeInput(probe)).jsFileMap]
  /\ UNCHANGED <<rev, options, cache, context, calls, started>>

\* executeUserCodeFromArtifacts(jsFileMap, userCodeSourceMap, args): the
\* sandbox executor on artifacts that preProcess returned, with no
\* compilation.  The linker matches by stripped name; a fault of the link or
\* of the top level of an additional file is thrown with a message of its
\* own, a fault of the user code becomes a runtime error.
settleFromArtifacts(run, artifacts) ==
  IF run.fault # NoFault /\ \A k \in 1..Len(run.trace) : run.trace[k] # DefaultExportCall
  THEN ThrewOutcome("Runtime error detected outside of user code execution path")
  ELSE settle(run.fault, run.global, artifacts)

executeUserCodeFromArtifacts(artifacts, args, global) ==
  IF ~links("map", artifacts) THEN ThrewOutcome("Unable to resolve dependency")
  ELSE settleFromArtifacts(evaluate("map", artifacts, putIntoContext(global, args)), artifacts)

\* the caller runs the artifacts of preProcess again, without compiling
ExecuteFromArtifacts ==
  /\ probe.pc = "ran"
  /\ probe.replayed = NoOutcome
  /\ probe' = [probe EXCEPT !.replayed =
                  executeUserCodeFromArtifacts(Artifacts(ProbeInput(probe)), probe.args,
                                               context["t1"])]
  /\ UNCHANGED <<rev, options, cache, context, calls, started>>

\* the caller reads error.message of a type error: the mapped lines follow
\* `TypeError: TS<code> `
GetMessage ==
  /\ probe.pc = "chained"
  /\ probe' = [probe EXCEPT
                  !.pc = "mapped",
                  !.threw = mapDiagnosticMessage(probe.mapping, probe.diagnostic,
                                                 probe.mappers).threw,
                  !.lines = mapDiagnosticMessage(probe.mapping, probe.diagnostic,
                                                 probe.mappers).value]
  /\ UNCHANGED <<rev, options, cache, context, calls, started>>

\* the caller reads error.stack of a type error in the user file
GetTypeErrorStack ==
  /\ probe.pc = "spanned"
  /\ probe' = [probe EXCEPT !.pc = "stacked",
                            !.threw = diagnosticNodeOf(UserTree, probe.diagnostic).threw,
                            !.node = diagnosticNodeOf(UserTree, probe.diagnostic).node]
  /\ UNCHANGED <<rev, options, cache, context, calls, started>>

\* result.toJSON()
Serialize ==
  /\ probe.pc = "result"
  /\ probe' = [probe EXCEPT !.pc = "serialized", !.json = Result_toJSON(probe.result)]
  /\ UNCHANGED <<rev, options, cache, context, calls, started>>

\* Result.fromJSON(json)
Deserialize ==
  /\ probe.pc = "serialized"
  /\ probe' = [probe EXCEPT !.pc = "deserialized",
                            !.threw = Result_fromJSON(probe.json).threw,
                            !.restored = Result_fromJSON(probe.json).value]
  /\ UNCHANGED <<rev, options, cache, context, calls, started>>

\* the caller reads error.location
GetLocation ==
  /\ probe.pc = "built"
  /\ probe.threw = ""
  /\ ~probe.located
  /\ probe' = [probe EXCEPT !.located = TRUE, !.location = location(probe.error)]
  /\ UNCHANGED <<rev, options, cache, context, calls, started>>

\* the caller reads the stack of a runtime error
GetStack ==
  /\ probe.pc = "built"
  /\ probe.error.cls = "UserCodeRuntimeError"
  /\ ~probe.traced
  /\ probe' = [probe EXCEPT !.traced = TRUE, !.stack = RuntimeStack(probe.error)]
  /\ UNCHANGED <<rev, options, cache, context, calls, started>>

NextErrors ==
  \/ NewTypeError
  \/ ForEachDiagnostics
  \/ NewRuntimeError
  \/ LinkAndEvaluate
  \/ ExecuteFromArtifacts
  \/ GetMessage
  \/ GetTypeErrorStack
  \/ Serialize
  \/ Deserialize
  \/ GetLocation
  \/ GetStack

SpecErrors == InitErrors /\ [][NextErrors]_vars

(***************************************************************************)
(* Properties of executeUserCode.                                          *)
(***************************************************************************)
Done(t) == calls[t].pc = "done"

\* the diagnostics the errors of a list were built from, in the list's order
origins(errs) == [k \in 1..Len(errs) |-> errs[k].origin]

(* C1: whatever the input, executeUserCode returns Ok or Err and never     *)
(* throws for a user-caused condition.  None of the inputs of the runner   *)
(* has a fault of the embedder (every type named is declared, every import *)
(* of the harness resolves, no diagnostic is without a file), so here the  *)
(* claim says that no call throws.                                         *)
C1_NeverThrows == \A t \in Tasks : calls[t].outcome.kind # "Threw"

(* C2: the load, link and evaluate steps are reached only after the        *)
(* type-check of the same inputs ended with no file-bearing diagnostic.    *)
C2_EvaluatesOnlyCleanInputs ==
  \A t \in Tasks :
     calls[t].pc \in {"linking", "evaluating"} \/ calls[t].evaluated
       => FileBearing(calls[t].input) = <<>>

(* C3: when evaluation ends without a fault the call returns Ok(v) with v  *)
(* the user's default export applied to this call's arguments, whatever    *)
(* the caller's context held from earlier calls.                           *)
C3_ReturnsThisCallsResult ==
  \A t \in Tasks :
     /\ calls[t].pc = "evaluating" /\ calls[t].fault = NoFault
          => context[t].result = Value(calls[t].artifacts.userCode, calls[t].args)
     /\ Done(t) /\ calls[t].evaluated /\ calls[t].fault = NoFault
          => /\ calls[t].outcome.kind = "Ok"
             /\ calls[t].outcome.value = Value(calls[t].input.userCode, calls[t].args)

\* a call returned Ok with a context that held another call's arguments and
\* result when it was handed in
C3_Witness ==
  \E t \in Tasks :
     /\ Done(t) /\ calls[t].outcome.kind = "Ok"
     /\ calls[t].handed.args \notin {NoArgs, calls[t].args}
     /\ calls[t].handed.result \notin {UndefinedValue, calls[t].outcome.value}

C5_FaultGivesOneRuntimeError ==
  \A t \in Tasks :
     Done(t) /\ calls[t].fault # NoFault
       => /\ calls[t].outcome.kind = "Err"
          /\ calls[t].outcome.value = UndefinedValue
          /\ Len(calls[t].outcome.errs) = 1
          /\ calls[t].outcome.errs[1].cls = "UserCodeRuntimeError"
          /\ RuntimeMessage(calls[t].outcome.errs[1]) = <<"Error: ", calls[t].fault.message>>

\* one call ended on the user's throw and another on the timeout
C5_Witness ==
  /\ Done("t1") /\ calls["t1"].fault = UserFault /\ calls["t1"].outcome.kind = "Err"
  /\ Done("t2") /\ calls["t2"].fault = TimeoutFault /\ calls["t2"].outcome.kind = "Err"

(***************************************************************************)
(* Properties of the error classes.                                        *)
(***************************************************************************)
Located == probe.located /\ probe.location.threw = ""
IsRuntimeError == probe.error.cls = "UserCodeRuntimeError"

(* C6: the location of every error has line >= 1 and column >= 1; the      *)
(* first character of a line is column 1.                                  *)
C6_LineAndColumnFromOne ==
  Located => probe.location.line >= 1 /\ probe.location.column >= 1

(* C7: whatever file the diagnostic or the frame belongs to, the location  *)
(* is a position of the user source: the offset or frame it is computed    *)
(* from is one of the user file and lies inside its text.                  *)
C7_LocationOfUserSource ==
  Located =>
    IF IsRuntimeError
    THEN /\ probe.error.error.stack[1].fileName = USER_CODE_FILENAME
         /\ probe.location.line \in 1..Len(UserLineStarts)
    ELSE /\ probe.error.diagnostic.file = USER_CODE_FILENAME
         /\ \/ probe.error.diagnostic.start = Undefined
            \/ probe.error.diagnostic.start \in UserFileStart..UserFileEnd

\* the frames whose script is the user module, by equality of names, and that
\* the source map translates, in the order of the captured stack
RetainedFrames(e) ==
  SelectSeq(e.error.stack,
            LAMBDA callSite :
              /\ callSite.fileName = USER_CODE_FILENAME
              /\ originalPositionFor(e.sourceMap, callSite.lineNumber,
                                     callSite.columnNumber).line # Null)

(* C8: the stack of a runtime error holds exactly the frames of the user   *)
(* module (by name equality) that the source map translates, in the        *)
(* captured order; no frame of the harness, an additional module, the host *)
(* or a file whose name only ends with the user file's name.               *)
C8_StackOfUserFramesOnly ==
  probe.traced =>
    /\ Len(probe.stack) = Len(RetainedFrames(probe.error))
    /\ \A k \in 1..Len(probe.stack) :
         LET callSite == RetainedFrames(probe.error)[k]
             position == originalPositionFor(probe.error.sourceMap, callSite.lineNumber,
                                             callSite.columnNumber)
         IN probe.stack[k] = [functionName |-> callSite.functionName,
                              line |-> position.line, column |-> position.column]

(* C9: the location of a runtime error is the translated position of the   *)
(* first retained frame, not of the first captured frame; with no frame    *)
(* retained it is (1,1), and reading it does not fail.                     *)
C9_LocationOfInnermostRetainedFrame ==
  probe.located /\ IsRuntimeError =>
    LET retained == RetainedFrames(probe.error)
    IN IF retained = <<>> THEN probe.location = Location(1, 1)
       ELSE LET position == originalPositionFor(probe.error.sourceMap,
                                                retained[1].lineNumber,
                                                retained[1].columnNumber)
            IN /\ probe.location.threw = ""
               /\ probe.location.line = position.line

\* the rule of the fixed order that a harness diagnostic matches first; 0 when
\* it matches none
FirstRule(diagnostic) ==
  LET node == HarnessNodeOf(diagnostic)
  IN CASE diagnostic.code = 1192 -> 1
       [] diagnostic.code = 2306 -> 2
       [] diagnostic.code = 2349 /\ node = executionHarnessDefaultFunctionIdentifierNode -> 3
       [] node = executionHarnessResultNode -> 4
       [] node \in {executionHarnessDefaultFunctionCallNode,
                    executionHarnessDefaultFunctionIdentifierNode,
                    executionHarnessArgumentsNode} -> 5
       [] OTHER -> 0

\* the rule a rewritten diagnostic shows it was classified by: its message
RuleOfMessage(messageText) ==
  CASE messageText \in {"No default export. Expected a default export with the signature",
                        "No default export. Expected a default export function with the signature"} -> 1
    [] messageText = "No exports. Expected a default export with the signature" -> 2
    [] messageText \in {"Default export is not callable. Expected a default export with the signature",
                        "Default export is not a valid function. Expected a default export function with the signature"} -> 3
    [] messageText = "Incorrect return type." -> 4
    [] messageText = "Incorrect argument type." -> 5
    [] OTHER -> 0

UnmappedHarnessDiagnostic ==
  {"Unmapped execution harness error", "Unhandled diagnostic node"}

(* C10: a diagnostic of the harness is classified by the first rule it     *)
(* matches in the order 1192, 2306, 2349 at the callee, the result node,   *)
(* the call / callee / argument list; one that matches no rule makes the   *)
(* constructor throw and is never returned as an error of the user.        *)
C10_FirstMatchingRule ==
  probe.pc = "built" /\ probe.diagnostic.file = EXECUTION_HARNESS_FILENAME =>
    IF FirstRule(probe.diagnostic) = 0
    THEN probe.threw \in UnmappedHarnessDiagnostic
    ELSE /\ probe.threw \notin UnmappedHarnessDiagnostic
         /\ probe.threw = "" =>
              RuleOfMessage(probe.error.diagnostic.messageText) = FirstRule(probe.diagnostic)

\* the probe is a diagnostic of the harness that the constructor was given
HarnessProbe == probe.pc = "built" /\ probe.diagnostic.file = EXECUTION_HARNESS_FILENAME

\* the rewritten diagnostic lies in the user file over the given span
Surfaced(span) ==
  /\ probe.threw = ""
  /\ probe.error.diagnostic.file = USER_CODE_FILENAME
  /\ probe.error.diagnostic.start = span.start
  /\ probe.error.diagnostic.length = span.end - span.start

\* the location read from the probe is the line and column of the offset
LocatedAt(start) ==
  probe.located =>
    probe.location =
      Location(getLineAndCharacterOfPosition(UserLineStarts, start).line + 1,
               getLineAndCharacterOfPosition(UserLineStarts, start).character + 1)

(* C11: a harness diagnostic with code 1192 is surfaced with the message   *)
(* "No default export. Expected a default export function with the         *)
(* signature: ..." at the start of the user file, spanning the whole user  *)
(* file; one with code 2306 at the same place with a message beginning     *)
(* "No exports.".                                                          *)
C11_NoExportSurfaced ==
  HarnessProbe /\ probe.diagnostic.code \in {1192, 2306} =>
    /\ Surfaced(Span(UserFileStart, UserFileEnd))
    /\ LocatedAt(UserFileStart)
    /\ probe.diagnostic.code = 1192 =>
         probe.error.diagnostic.messageText =
           "No default export. Expected a default export function with the signature"
    /\ probe.diagnostic.code = 2306 =>
         probe.error.diagnostic.messageText \in
           {"No exports. Expected a default export with the signature",
            "No exports. Expected a default export function with the signature"}

(* C12: for a default export that is not callable (diagnostic 2349 at the  *)
(* callee identifier) the returned diagnostic has the message "Default     *)
(* export is not a valid function. Expected ..." and lies at the start of  *)
(* the declaration or assignment of the default export in the user file.   *)
C12_NotCallableSurfaced ==
  /\ HarnessProbe
  /\ probe.diagnostic.code = 2349
  /\ HarnessNodeOf(probe.diagnostic) = executionHarnessDefaultFunctionIdentifierNode
  /\ formOf(probe.userCode) \in NonCallableForms
  => /\ Surfaced(defaultExportNode(probe.userCode))
     /\ LocatedAt(defaultExportNode(probe.userCode).start)
     /\ probe.error.diagnostic.messageText =
          "Default export is not a valid function. Expected a default export function with the signature"

\* the function-like of a callable default export: the declaration from its
\* first modifier, or the arrow / function expression from its parameters on
SignatureOf(userCode) ==
  IF formOf(userCode) = "funcDecl" THEN Span(0, 20) ELSE Span(3, 11)

(* C13: for a return-type mismatch (diagnostic at the left-hand side of    *)
(* the result assignment) and each of the four callable forms, the         *)
(* diagnostic lies at the return-type annotation when there is one, else   *)
(* at the function or arrow signature (or the export statement that holds  *)
(* it), and building it does not fail.                                     *)
C13_ReturnMismatchSurfaced ==
  /\ HarnessProbe
  /\ HarnessNodeOf(probe.diagnostic) = executionHarnessResultNode
  /\ formOf(probe.userCode) \in CallableForms
  => /\ probe.threw = ""
     /\ probe.error.diagnostic.file = USER_CODE_FILENAME
     /\ IF isAnnotated(probe.userCode)
        THEN Surfaced(typeOf(probe.userCode))
        ELSE \/ Surfaced(SignatureOf(probe.userCode))
             \/ /\ formOf(probe.userCode) = "exprArrow"
                /\ Surfaced(exportAssignmentOf(probe.userCode))

(* C14: for an argument mismatch (diagnostic at the call, the callee or    *)
(* the argument list) the diagnostic lies at the whole default export when *)
(* the call signature has no parameters, else it runs from the start of    *)
(* the first parameter to the end of the last; either way its location is  *)
(* a finite position inside the user file.                                 *)
C14_ArgumentMismatchSurfaced ==
  /\ HarnessProbe
  /\ probe.diagnostic.code \in {2345, 2554}
  /\ HarnessNodeOf(probe.diagnostic) \in {executionHarnessDefaultFunctionCallNode,
                                          executionHarnessDefaultFunctionIdentifierNode,
                                          executionHarnessArgumentsNode}
  /\ formOf(probe.userCode) \in CallableForms
  => /\ IF parameterCount(probe.userCode) = 0
        THEN Surfaced(defaultExportNode(probe.userCode))
        ELSE Surfaced(Span(MinStart(parametersOf(probe.userCode)),
                           MaxEnd(parametersOf(probe.userCode))))
     /\ probe.error.diagnostic.start \in UserFileStart..UserFileEnd
     /\ probe.located =>
          /\ probe.location.threw = ""
          /\ probe.location.line \in 1..Len(UserLineStarts)
          /\ probe.location.column \in 1..(UserFileEnd + 1)

(***************************************************************************)
(* Properties of the loops of preProcess.                                  *)
(***************************************************************************)
WithoutFile(diagnostics) == {k \in 1..Len(diagnostics) : diagnostics[k].file = NoFile}

\* a diagnostic without a file none of whose codes is on the allow-list
NotBenign(diagnostic) ==
  diagnostic.file = NoFile /\ 1420 \notin getDiagnosticCodes(diagnostic)

Looped == probe.pc = "looped"

\* what holds of the loops whatever a pass lets pass: no error of the returned
\* list comes from a diagnostic without a file, and a returned list has the
\* diagnostics with a file in the compiler's order
ReturnsFileBearingOnly ==
  /\ \A k \in 1..Len(probe.errors) : probe.errors[k].origin.file # NoFile
  /\ probe.threw = "" =>
       origins(probe.errors) =
         SelectSeq(probe.lists[1] \o probe.lists[2], LAMBDA d : d.file # NoFile)

FailedToCompile(t) ==
  /\ calls[t].pc = "done" /\ calls[t].compiled
  /\ calls[t].outcome.kind = "Err" /\ ~calls[t].evaluated

(* C16: at the moment a call returns the Err of a failed compilation the   *)
(* cache holds that failure under the call's key; and a call that finds a  *)
(* failure under its key returns the stored diagnostics at once, without   *)
(* running the compiler.                                                   *)
C16_FailureIsCached ==
  [][\A t \in Tasks :
       /\ calls[t].pc # "done" /\ FailedToCompile(t)'
            => /\ has(cache', calls'[t].key)
               /\ get(cache', calls'[t].key).result = Err(calls'[t].outcome.errs)
       /\ (/\ calls[t].pc = "idle" /\ calls'[t].pc # "idle"
           /\ has(cache, calls'[t].key)
           /\ get(cache, calls'[t].key).result.kind = "Err")
            => /\ calls'[t].pc = "done" /\ ~calls'[t].compiled
               /\ calls'[t].outcome.kind = "Err"
               /\ calls'[t].outcome.errs = get(cache, calls'[t].key).result.errs]_vars

\* two lists of errors serialize alike
SameJSON(errs, others) ==
  /\ Len(errs) = Len(others)
  /\ \A k \in 1..Len(errs) :
       /\ errs[k].cls = others[k].cls
       /\ toJSON(errs[k]) = toJSON(others[k])

(* C17: two calls with the same inputs and arguments, the second begun     *)
(* after the first returned, return toJSON-equal lists of diagnostics or   *)
(* equal Ok values, whatever the cache did in between.                     *)
C17_SameInputsSameOutcome ==
  \A t \in Tasks, u \in Tasks :
     /\ Done(t) /\ Done(u)
     /\ calls[u].began > calls[t].ended
     /\ calls[u].input = calls[t].input /\ calls[u].args = calls[t].args
     => /\ calls[u].outcome.kind = calls[t].outcome.kind
        /\ calls[u].outcome.value = calls[t].outcome.value
        /\ SameJSON(calls[u].outcome.errs, calls[t].outcome.errs)

(* C18: calls whose inputs differ in the user source, the expected return  *)
(* type, the expected argument types or the texts of the additional files  *)
(* have different keys, and a call served from the cache gets the          *)
(* artifacts or the diagnostics of its own inputs.                         *)
C18_KeyDeterminesInputs ==
  \A t \in Tasks :
     /\ \A u \in Tasks :
          calls[t].pc # "idle" /\ calls[u].pc # "idle" /\ calls[t].input # calls[u].input
            => calls[t].key # calls[u].key
     /\ calls[t].pc \in {"linking", "evaluating"} \/ calls[t].evaluated
          => calls[t].artifacts = Artifacts(calls[t].input)
     /\ Done(t) /\ calls[t].outcome.kind = "Err" /\ ~calls[t].evaluated
          => origins(calls[t].outcome.errs) = FileBearing(calls[t].input)

\* a probe of the module graph that ran to its end, and one that returned Ok
GraphProbe == probe.pc = "ran"
Succeeded == GraphProbe /\ probe.outcome.kind = "Ok"

\* the place of a step in a trace, 0 when it is not there
At(trace, step) ==
  IF \E k \in 1..Len(trace) : trace[k] = step
  THEN CHOOSE k \in 1..Len(trace) : trace[k] = step
  ELSE 0

Before(trace, first, second) ==
  At(trace, first) # 0 /\ At(trace, second) # 0 /\ At(trace, first) < At(trace, second)

\* the module names of the supplied non-declaration files, in supplied order
Listed(files) ==
  [k \in 1..Len(EmittedSources(files)) |-> removeExt(EmittedSources(files)[k].fileName)]

\* the module names the file of a name imports itself
Requests(files, name) ==
  UNION {{removeExt(dependencySpecifiers(files[k].text)[j]) :
            j \in 1..Len(dependencySpecifiers(files[k].text))} :
         k \in {i \in 1..Len(files) : removeExt(files[i].fileName) = name}}

\* the module names reached from a set of names by n or fewer imports
RECURSIVE Reached(_, _, _)
Reached(files, names, n) ==
  IF n = 0 THEN names
  ELSE Reached(files, names \cup UNION {Requests(files, name) : name \in names}, n - 1)

Imports(files, name) == Reached(files, Requests(files, name), Len(files))

AllBeforeTheCall(p) ==
  \A k \in 1..Len(Listed(p.files)) : Before(p.trace, Listed(p.files)[k], DefaultExportCall)

DeclarationsNeverRun(p) ==
  \A k \in 1..Len(p.files) :
     isDeclarationFile(p.files[k]) => At(p.trace, removeExt(p.files[k].fileName)) = 0

(* C19: in every successful execution every non-declaration auxiliary module
   supplied has been evaluated before the default export is invoked, the
   auxiliary modules are evaluated in the order the harness lists their
   imports, and declaration-only auxiliaries are never evaluated. *)
C19_EvaluatedInListedOrder ==
  Succeeded =>
    /\ AllBeforeTheCall(probe)
    /\ \A j, k \in 1..Len(Listed(probe.files)) :
          j < k => Before(probe.trace, Listed(probe.files)[j], Listed(probe.files)[k])
    /\ DeclarationsNeverRun(probe)

(* C19, amended: in every successful execution every non-declaration auxiliary
   module supplied has been evaluated before the default export is invoked;
   the auxiliary modules are evaluated in the order of a depth-first walk from
   the harness's import list, that is each after the modules it imports (that
   do not import it back) and otherwise in the order the harness lists them;
   declaration-only auxiliaries are never evaluated. *)
C19_EvaluatedDepthFirst ==
  Succeeded =>
    /\ AllBeforeTheCall(probe)
    /\ \A j, k \in 1..Len(Listed(probe.files)) :
          (/\ Listed(probe.files)[k] \in Requests(probe.files, Listed(probe.files)[j])
           /\ Listed(probe.files)[j] \notin Imports(probe.files, Listed(probe.files)[k]))
          => Before(probe.trace, Listed(probe.files)[k], Listed(probe.files)[j])
    /\ \A j, k \in 1..Len(Listed(probe.files)) :
          j < k =>
            \/ Before(probe.trace, Listed(probe.files)[j], Listed(probe.files)[k])
            \/ \E i \in 1..j :
                  Listed(probe.files)[k] \in Imports(probe.files, Listed(probe.files)[i])
    /\ DeclarationsNeverRun(probe)

C19_Witness ==
  /\ Succeeded
  /\ \E k \in 1..Len(probe.files) : isDeclarationFile(probe.files[k])
  /\ \E j, k \in 1..Len(Listed(probe.files)) :
        j < k /\ Before(probe.trace, Listed(probe.files)[k], Listed(probe.files)[j])
  /\ Before(probe.trace, USER_CODE_FILENAME, DefaultExportCall)

\* the fault of the run came from the link or from the top level of an
\* additional file, not from the call of the default export
OutsideUserCode(p) ==
  \/ p.threw = "Unable to resolve dependency"
  \/ p.fault = LibraryFault /\ At(p.trace, DefaultExportCall) = 0

(* C20: a fault that arises when the modules are linked or at the top level
   of an auxiliary file, outside the call of the default export, is not turned
   into a user diagnostic: the call throws an internal error with a message of
   its own and returns neither Err nor Ok. *)
C20_OutsideFaultRethrown ==
  (GraphProbe /\ OutsideUserCode(probe)) =>
    /\ probe.outcome.kind = "Threw"
    /\ probe.outcome.threw # ""
    /\ probe.outcome.errs = <<>>

\* the probe ran executeUserCode and then the artifacts of its preProcess
Replayed == GraphProbe /\ probe.replayed # NoOutcome

(* C21: the runner has an operation that executes artifacts without
   compiling, and a successful preProcess followed by that operation on the
   returned artifacts gives the outcome executeUserCode gives on the same
   inputs and arguments: the same Ok value or an Err list equal by toJSON. *)
C21_FromArtifactsAgrees ==
  Replayed =>
    /\ probe.replayed.kind = probe.outcome.kind
    /\ probe.replayed.value = probe.outcome.value
    /\ SameJSON(probe.replayed.errs, probe.outcome.errs)

\* the import specifiers written in the supplied non-declaration files
Specifiers(files) ==
  UNION {{dependencySpecifiers(EmittedSources(files)[k].text)[j] :
            j \in 1..Len(dependencySpecifiers(EmittedSources(files)[k].text))} :
         k \in 1..Len(EmittedSources(files))}

\* the specifier has the stripped name of an emitted module
Matches(files, specifier) ==
  \E k \in 1..Len(Listed(files)) : Listed(files)[k] = removeExt(specifier)

(* C22: in the link an import specifier resolves to the emitted module whose
   stripped name is the stripped name of the specifier, so that a specifier
   with an extension and one without resolve to the same module; a specifier
   that matches no emitted module makes the call throw an internal error and
   return no user diagnostic. *)
C22_ResolvesByStrippedName ==
  GraphProbe =>
    /\ (\A specifier \in Specifiers(probe.files) : Matches(probe.files, specifier))
       => /\ probe.threw = ""
          /\ probe.fault # LibraryFault =>
               \A specifier \in Specifiers(probe.files) :
                  At(probe.trace, removeExt(specifier)) # 0
    /\ (\E specifier \in Specifiers(probe.files) : ~Matches(probe.files, specifier))
       => probe.outcome.kind = "Threw" /\ probe.outcome.errs = <<>>

Deserialized == probe.pc = "deserialized"

(* C23: the serialization of a Result round-trips: for every Result r, Ok or
   Err, Result.fromJSON(r.toJSON()) is a Result of the same variant that
   holds an equal payload. *)
C23_ResultRoundTrips ==
  Deserialized =>
    /\ probe.threw = ""
    /\ isOk(probe.restored) = isOk(probe.result)
    /\ isErr(probe.restored) = isErr(probe.result)
    /\ probe.restored.value = probe.result.value
    /\ probe.restored.error = probe.result.error
    /\ isOk(probe.result) =>
         probe.json = [type |-> SerializedResultType.Ok, value |-> probe.result.value]

C23_Witness ==
  /\ Deserialized
  /\ isErr(probe.result)
  /\ probe.result.error = "[UserCodeTypeError]"
  /\ isErr(probe.restored)

\* the nodes of a chain in depth-first pre-order, each with its depth
RECURSIVE PreOrder(_, _)
RECURSIVE PreOrderOfAll(_, _)
PreOrderOfAll(next, depth) ==
  IF next = <<>> THEN <<>>
  ELSE PreOrder(Head(next), depth) \o PreOrderOfAll(Tail(next), depth)

PreOrder(chain, depth) ==
  <<[code |-> chain.code, messageText |-> chain.messageText, depth |-> depth]>>
  \o PreOrderOfAll(chain.next, depth + 1)

NodesOf(diagnostic) ==
  PreOrder(DiagnosticMessageChain(diagnostic.code, diagnostic.messageText, diagnostic.next), 0)

\* what the table makes of the text of a node
ExpectedText(table, node) ==
  IF registered(table, node.code) THEN applyMapper(table, node.code, node.messageText)
  ELSE node.messageText

\* the lines are those of the nodes: as many, in their order, each the mapped
\* text of its node after two spaces for every level of depth
LinesOfNodes(lines, nodes, table) ==
  /\ Len(lines) = Len(nodes)
  /\ \A k \in 1..Len(nodes) :
        /\ Len(lines[k]) = nodes[k].depth + 1
        /\ \A j \in 1..nodes[k].depth : lines[k][j] = "  "
        /\ lines[k][Len(lines[k])] = ExpectedText(table, nodes[k])

MessageRead == probe.pc = "mapped"

(* C24: for a diagnostic whose message is a chain the mapped message has one
   line for every node of the chain, in the depth-first pre-order of the
   chain; the text of each node went through the mapper registered for the
   code of that node, and a node at depth d is prefixed by 2*d spaces. *)
C24_OneLinePerChainNode ==
  (MessageRead /\ probe.threw = "") =>
    LinesOfNodes(probe.lines, NodesOf(probe.diagnostic), probe.mappers)

\* some node has a mapper for its code that returns undefined for its text
UnmappedNode(nodes, table) ==
  \E k \in 1..Len(nodes) :
     registered(table, nodes[k].code) /\ ExpectedText(table, nodes[k]) = UndefinedText

(* C25: when a mapper is registered for a code and returns no value for a
   message of that code, at the head of the chain or at any depth, an
   internal error is raised and neither the unmapped text nor an empty string
   nor the text undefined appears in its place; when no mapper is registered
   for a code the message text passes unchanged. *)
C25_UndefinedFromMapperThrows ==
  MessageRead =>
    /\ UnmappedNode(NodesOf(probe.diagnostic), probe.mappers)
         => probe.threw = "Insufficient message mapper found for ts diagnostic code"
              /\ probe.lines = <<>>
    /\ ~UnmappedNode(NodesOf(probe.diagnostic), probe.mappers)
         => /\ probe.threw = ""
            /\ \A k \in 1..Len(NodesOf(probe.diagnostic)) :
                 ~registered(probe.mappers, NodesOf(probe.diagnostic)[k].code) =>
                   \E j \in 1..Len(probe.lines) :
                      probe.lines[j][Len(probe.lines[j])] =
                        NodesOf(probe.diagnostic)[k].messageText

\* the call read its key's entry and found none
ReadNoEntry(t) ==
  calls[t].outcome.threw = "Cannot destructure property 'jsFileMap' of undefined"

(* C28: when executeUserCode reads the entry of its key, after the presence
   check or after storing a fresh compilation, the entry is there, under
   every eviction setting the caller can configure and every interleaving
   with other calls: no call goes on with a missing bundle of artifacts. *)
C28_EntryPresentWhenRead ==
  \A t \in Tasks :
     /\ ~ReadNoEntry(t)
     /\ calls[t].pc \in {"linking", "evaluating"} => calls[t].artifacts # NoArtifacts

\* what a call returns that runs alone, on a runner with an empty cache
settleRun(run, artifacts) == settle(run.fault, run.global, artifacts)

aloneRun(revision, artifacts, args) ==
  IF ~links(revision, artifacts) THEN ThrewOutcome("Unable to resolve dependency")
  ELSE settleRun(evaluate(revision, artifacts,
                          putIntoContext([args |-> NoArgs, result |-> UndefinedValue], args)),
                 artifacts)

aloneCompiled(revision, cacheOptions, compiled, args) ==
  IF compiled.threw # "" THEN ThrewOutcome(compiled.threw)
  ELSE IF compiled.value.kind = "Err" THEN ErrOutcome(compiled.value.errs)
  ELSE IF revision = "lru" /\ cacheOptions = "maxSize"
  THEN ThrewOutcome("Cannot destructure property 'jsFileMap' of undefined")
  ELSE aloneRun(revision, compiled.value.artifacts, args)

Alone(in, args) == aloneCompiled(rev, options, preProcess(rev, in), args)

SameOutcome(outcome, other) ==
  /\ outcome.kind = other.kind
  /\ outcome.value = other.value
  /\ outcome.threw = other.threw
  /\ SameJSON(outcome.errs, other.errs)

\* the entry under the key of a call in flight is what preProcess returns
\* for the inputs of that call
StoredForItsInputs(t, compiled) ==
  (calls[t].pc # "idle" /\ has(cache, calls[t].key)) =>
    /\ compiled.threw = ""
    /\ get(cache, calls[t].key).result = compiled.value

\* a store under a key that has an entry leaves the entry as it was
StoresAgree ==
  \A k \in 1..Len(cache) :
     has(cache', cache[k].key) => get(cache', cache[k].key).result = cache[k].result

(* C26: when several executeUserCode calls run concurrently on a shared
   cache, two of them that miss on one key and both compile included, every
   value stored under a key is the result of compiling the inputs of that
   key, a later store under the key is equal to the earlier one, and every
   call returns the outcome it would have returned had it run alone. *)
C26_ConcurrentCallsAsIfAlone ==
  /\ [](\A t \in Tasks :
          /\ StoredForItsInputs(t, preProcess(rev, calls[t].input))
          /\ Done(t) => SameOutcome(calls[t].outcome, Alone(calls[t].input, calls[t].args)))
  /\ [][StoresAgree]_vars

\* the node encloses the span of the diagnostic
Encloses(tree, node, diagnostic) ==
  /\ tree[node].start <= diagnostic.start
  /\ diagnostic.start + diagnostic.length <= tree[node].end

\* the node is one of the smallest that enclose the span: none of its
\* children encloses it too, unless with the extent of the node itself
SmallestEnclosing(tree, node, diagnostic) ==
  /\ Encloses(tree, node, diagnostic)
  /\ \A k \in 1..Len(tree[node].children) :
        Encloses(tree, tree[node].children[k], diagnostic) =>
          /\ tree[tree[node].children[k]].start = tree[node].start
          /\ tree[tree[node].children[k]].end = tree[node].end

(* C27: the look-up of the node of a diagnostic returns the smallest node
   that encloses the span of the diagnostic, also when no node starts and
   ends exactly where the span does; so for every diagnostic whose span lies
   within its file, reading the stack never fails for want of a node. *)
C27_SmallestEnclosingNodeFound ==
  probe.pc = "stacked" =>
    /\ probe.threw = ""
    /\ probe.node # NoNode
    /\ SmallestEnclosing(UserTree, probe.node, probe.diagnostic)

\* the names an emitted-JavaScript map is to have for a list of additional
\* files: the user file, the harness and every file that is not a declaration
ExpectedNames(files) ==
  {USER_CODE_FILENAME, EXECUTION_HARNESS_FILENAME}
  \cup {removeExt(files[k].fileName) :
          k \in {j \in 1..Len(files) : ~endsWith(files[j].fileName, <<".d", ".ts">>)}}

(* C30: after a successful preProcess the emitted-JavaScript map of the
   artifacts has an entry for the user file, for the harness and for every
   additional file that is not a declaration, each under its name without
   extension, and no other entry: none for a declaration file, for a source
   map or for another output. *)
C30_OneModulePerSource ==
  probe.pc = "ran" =>
    /\ probe.jsFileMap = ExpectedNames(probe.files)
    /\ \A k \in 1..Len(probe.files) :
          endsWith(probe.files[k].fileName, <<".d", ".ts">>) =>
            /\ removeExt(probe.files[k].fileName) \notin probe.jsFileMap
            /\ removeExt(removeExt(probe.files[k].fileName)) \notin probe.jsFileMap
    /\ \A name \in probe.jsFileMap : name[Len(name)] \notin Extensions

C30_Witness ==
  /\ probe.pc = "ran"
  /\ \E j, k \in 1..Len(probe.files) :
        /\ probe.files[j] = DeclarationFile
        /\ probe.files[k] = EffectFile
  /\ Cardinality(probe.jsFileMap) = Len(probe.files) + 1

\* the call of the task is in flight: it awaits the source map consumer, the
\* link or the evaluation
InFlight(t) == calls[t].pc \in {"sourceMap", "linking", "evaluating"}

\* the call of the task ended on the timeout of its evaluation
TimedOut(t) == Done(t) /\ calls[t].evaluated /\ calls[t].fault = TimeoutFault

(* C29: every call of executeUserCode eventually completes, with Ok, with
   Err or with a throw; a call whose user code does not return ends, when
   the timeout expires, with an Err that holds one runtime error. *)
C29_EveryCallCompletes ==
  /\ \A t \in Tasks : InFlight(t) ~> Done(t)
  /\ [](\A t \in Tasks :
          TimedOut(t) =>
            /\ calls[t].outcome.kind = "Err"
            /\ Len(calls[t].outcome.errs) = 1
            /\ calls[t].outcome.errs[1].cls = "UserCodeRuntimeError"
            /\ calls[t].outcome.errs[1].error = TimeoutFault)

C29_Witness ==
  \E t \in Tasks :
    /\ TimedOut(t)
    /\ calls[t].compiled
    /\ calls[t].outcome.kind = "Err"
====
